---------------------------- MODULE Spec2Model ----------------------------
(***************************************************************************)
(* A model of the MetaDAO pool sniper: the Yellowstone stream client, the  *)
(* log classifiers, the transaction executor, the pool creators and the    *)
(* two orchestrators (AutoPoolOrchestrator, AutoLoyalPoolOrchestrator).    *)
(*                                                                         *)
(* Strings are sequences of one-character strings, so that substring and   *)
(* regular-expression matching are computed and not assumed.               *)
(***************************************************************************)
EXTENDS Integers, Sequences, FiniteSets, TLC

\* ------------------------------------------------------------------ bounds
MaxLogs == 2        \* log lines per classified event (parser specification)
MaxEvents == 2      \* transaction frames delivered in one run
MaxHeight == 2      \* block heights carried by anchor updates
MaxTime == 6        \* the clock stops at this many seconds
MaxStreams == 2     \* subscriptions opened by one client
MaxTimers == 2      \* refresh intervals started by one client
MaxPending == 1     \* fetchBlockhashFromSlot calls in flight
MaxCalls == 2       \* submissions made through one executor used on its own

\* the period of the startBlockhashRefresh interval, in seconds
RefreshSeconds == 5

\* ------------------------------------------------------------- characters
UpperChars ==
  <<"A","B","C","D","E","F","G","H","I","J","K","L","M",
    "N","O","P","Q","R","S","T","U","V","W","X","Y","Z">>

LowerChars ==
  <<"a","b","c","d","e","f","g","h","i","j","k","l","m",
    "n","o","p","q","r","s","t","u","v","w","x","y","z">>

DigitChars == {"0","1","2","3","4","5","6","7","8","9"}

UpperSet == { UpperChars[i] : i \in 1..26 }

LowerSet == { LowerChars[i] : i \in 1..26 }

IsUpper(c) == c \in UpperSet

IsLower(c) == c \in LowerSet

\* String.prototype.toLowerCase on one character
ToLowerChar(c) ==
  IF IsUpper(c) THEN LowerChars[CHOOSE i \in 1..26 : UpperChars[i] = c] ELSE c

ToUpperChar(c) ==
  IF IsLower(c) THEN UpperChars[CHOOSE i \in 1..26 : LowerChars[i] = c] ELSE c

ToLowerCase(s) == [i \in 1..Len(s) |-> ToLowerChar(s[i])]

\* String.prototype.includes
Includes(hay, needle) ==
  \E i \in 1..(Len(hay) - Len(needle) + 1) :
      \A j \in 1..Len(needle) : hay[i + j - 1] = needle[j]

\* Array.prototype.join(' ')
RECURSIVE JoinSpace(_)
JoinSpace(ls) ==
  IF Len(ls) = 0 THEN <<>>
  ELSE IF Len(ls) = 1 THEN ls[1]
  ELSE ls[1] \o <<" ">> \o JoinSpace(Tail(ls))

Repeat(c, n) == [i \in 1..n |-> c]

\* ------------------------------------------------------------ log lines
sInstruction == <<"I","n","s","t","r","u","c","t","i","o","n",":"," ">>

sComplete == <<"C","o","m","p","l","e","t","e">>

sLaunch == <<"L","a","u","n","c","h">>

sFund == <<"F","u","n","d">>

sRefund == <<"R","e","f","u","n","d">>

sClaim == <<"C","l","a","i","m">>

sInitialize == <<"I","n","i","t","i","a","l","i","z","e">>

sStart == <<"S","t","a","r","t">>

sInvoke == <<"i","n","v","o","k","e">>

sAccount == <<"a","c","c","o","u","n","t">>

\* the configured target launch (targetLaunchPubkey.toBase58()) and another one
TargetKey == Repeat("T", 32)

OtherKey == Repeat("X", 32)

LineCompleteLaunch == sInstruction \o sComplete \o sLaunch

LineCompleteLower == ToLowerCase(sInstruction \o sComplete \o sLaunch)

LineCompleteSnake == ToLowerCase(sComplete) \o <<"_">> \o ToLowerCase(sLaunch)

LineCompleteWord == ToLowerCase(sComplete)

LineLaunchWord == ToLowerCase(sLaunch)

LineInitializeLaunch == sInstruction \o sInitialize \o sLaunch

LineStartLaunch == sInstruction \o sStart \o sLaunch

LineFund == sInstruction \o sFund

LineRefund == sInstruction \o sRefund

LineClaim == sInstruction \o sClaim

LineInvoke == sInvoke

\* a line of another kind that ends in the word "complete"
LineClaimComplete == sInstruction \o sClaim \o <<" ">> \o ToLowerCase(sComplete)

LineIdTarget == sLaunch \o <<":"," ">> \o TargetKey

LineIdOther == sLaunch \o <<":"," ">> \o OtherKey

LineIdShort == sLaunch \o <<":"," ">> \o Repeat("X", 31)

LineAccountOther == sAccount \o <<" ","#","1",":"," ">> \o OtherKey

LogLines ==
  { LineCompleteLaunch, LineCompleteLower, LineCompleteSnake, LineCompleteWord,
    LineLaunchWord, LineInitializeLaunch, LineStartLaunch, LineFund, LineRefund,
    LineClaim, LineInvoke, LineClaimComplete, LineIdTarget, LineIdOther, LineIdShort,
    LineAccountOther }

RECURSIVE SeqsUpTo(_, _)
SeqsUpTo(S, n) ==
  IF n = 0 THEN { <<>> }
  ELSE LET shorter == SeqsUpTo(S, n - 1)
       IN  shorter \cup { Append(s, x) : s \in { t \in shorter : Len(t) = n - 1 }, x \in S }

LogInputs == SeqsUpTo(LogLines, MaxLogs)

\* ------------------------------------------- transactionParser.ts (pool)
patterns ==
  << [name |-> "completeLaunch",
      match |-> << ToLowerCase(sComplete \o sLaunch),
                   ToLowerCase(sComplete) \o <<" ">> \o ToLowerCase(sLaunch) >>],
     [name |-> "initializeLaunch", match |-> << ToLowerCase(sInitialize \o sLaunch) >>],
     [name |-> "startLaunch", match |-> << ToLowerCase(sStart \o sLaunch) >>],
     [name |-> "fund", match |-> << ToLowerCase(sFund) >>],
     [name |-> "refund", match |-> << ToLowerCase(sRefund) >>],
     [name |-> "claim", match |-> << ToLowerCase(sClaim) >> ] >>

PatternMatches(allLogs, p) ==
  \E m \in 1..Len(p.match) : Includes(allLogs, p.match[m])

RECURSIVE DetectFrom(_, _, _)
DetectFrom(allLogs, i, default) ==
  IF i > Len(patterns) THEN default
  ELSE IF PatternMatches(allLogs, patterns[i]) THEN patterns[i].name
  ELSE DetectFrom(allLogs, i + 1, default)

\* a detectInstruction whose final `return 'unknown'` is missing
detectInstructionNoDefault(logs) ==
  DetectFrom(ToLowerCase(JoinSpace(logs)), 1, "undefined")

detectInstruction(logs) ==
  DetectFrom(ToLowerCase(JoinSpace(logs)), 1, "unknown")

parseMetaDAOTransaction(logs) == [instructionType |-> detectInstruction(logs)]

isCompleteLaunchTransaction(parsed) == parsed.instructionType = "completeLaunch"

\* --------------------------------- streamTransactions.ts (GeyserClient)
sInstructionCompleteLaunch == sInstruction \o sComplete \o sLaunch

sCompleteLaunch == sComplete \o sLaunch

\* isCompleteLaunchTransaction(logs) of the log-subscription client: a
\* case-sensitive test of each line on its own
geyserIsCompleteLaunchTransaction(logs) ==
  \E k \in 1..Len(logs) :
      \/ Includes(logs[k], sInstructionCompleteLaunch)
      \/ Includes(logs[k], LineCompleteSnake)
      \/ Includes(logs[k], sCompleteLaunch)

IsSpace(c) == c \in {" ", "\t"}

IsDigit(c) == c \in DigitChars

\* the character class [1-9A-HJ-NP-Za-km-z]
Base58(c) ==
  \/ c \in DigitChars \ {"0"}
  \/ IsUpper(c) /\ c \notin {"I", "O"}
  \/ IsLower(c) /\ c # "l"

\* the same class under the /i flag: a character matches when either case does
Base58IgnoreCase(c) == Base58(c) \/ Base58(ToLowerChar(c)) \/ Base58(ToUpperChar(c))

InClass(c, ignoreCase) == IF ignoreCase THEN Base58IgnoreCase(c) ELSE Base58(c)

\* s has the literal lit at position p
LiteralAt(s, p, lit, ignoreCase) ==
  /\ p + Len(lit) - 1 <= Len(s)
  /\ \A k \in 1..Len(lit) :
        IF ignoreCase THEN ToLowerChar(s[p + k - 1]) = ToLowerChar(lit[k])
        ELSE s[p + k - 1] = lit[k]

RECURSIVE SkipSpaces(_, _)
SkipSpaces(s, p) ==
  IF p <= Len(s) /\ IsSpace(s[p]) THEN SkipSpaces(s, p + 1) ELSE p

RECURSIVE SkipDigits(_, _)
SkipDigits(s, p) ==
  IF p <= Len(s) /\ IsDigit(s[p]) THEN SkipDigits(s, p + 1) ELSE p

RECURSIVE ClassRun(_, _, _)
ClassRun(s, p, ignoreCase) ==
  IF p <= Len(s) /\ InClass(s[p], ignoreCase) THEN 1 + ClassRun(s, p + 1, ignoreCase) ELSE 0

NoKey == <<>>

sLaunchColon == sLaunch \o <<":">>

sAccountColon == sAccount \o <<":">>

\* the capture group ([1-9A-HJ-NP-Za-km-z]{32,44}) at position p, greedy
KeyAt(s, p, ignoreCase) ==
  LET n == ClassRun(s, p, ignoreCase)
  IN  IF n >= 32 THEN SubSeq(s, p, p + (IF n > 44 THEN 44 ELSE n) - 1) ELSE NoKey

\* /Launch:\s*(KEY)/i anchored at p
LaunchPatternAt(s, p) ==
  IF LiteralAt(s, p, sLaunchColon, TRUE)
  THEN KeyAt(s, SkipSpaces(s, p + 7), TRUE)
  ELSE NoKey

\* /launch\s+account:\s*(KEY)/i anchored at p
LaunchAccountPatternAt(s, p) ==
  IF /\ LiteralAt(s, p, sLaunch, TRUE)
     /\ SkipSpaces(s, p + 6) > p + 6
     /\ LiteralAt(s, SkipSpaces(s, p + 6), sAccountColon, TRUE)
  THEN KeyAt(s, SkipSpaces(s, SkipSpaces(s, p + 6) + 8), TRUE)
  ELSE NoKey

\* /account\s+#\d+:\s*(KEY)/ anchored at p
AccountPatternAt(s, p) ==
  LET h == SkipSpaces(s, p + 7)
      d == SkipDigits(s, h + 1)
  IN  IF /\ LiteralAt(s, p, sAccount, FALSE)
         /\ h > p + 7
         /\ LiteralAt(s, h, <<"#">>, FALSE)
         /\ d > h + 1
         /\ LiteralAt(s, d, <<":">>, FALSE)
      THEN KeyAt(s, SkipSpaces(s, d + 1), FALSE)
      ELSE NoKey

PatternAt(k, s, p) ==
  IF k = 1 THEN LaunchPatternAt(s, p)
  ELSE IF k = 2 THEN LaunchAccountPatternAt(s, p)
  ELSE AccountPatternAt(s, p)

\* log.match(pattern): the capture of the leftmost match, or NoKey
RECURSIVE MatchFrom(_, _, _)
MatchFrom(k, s, p) ==
  IF p > Len(s) THEN NoKey
  ELSE LET m == PatternAt(k, s, p)
       IN  IF m # NoKey THEN m ELSE MatchFrom(k, s, p + 1)

\* the inner loop over the three patterns, for one line
RECURSIVE LineMatchFrom(_, _)
LineMatchFrom(s, k) ==
  IF k > 3 THEN NoKey
  ELSE LET m == MatchFrom(k, s, 1)
       IN  IF m # NoKey THEN m ELSE LineMatchFrom(s, k + 1)

\* a scan that keeps the match of the last matching line
RECURSIVE ExtractFromLastLine(_, _)
ExtractFromLastLine(logs, i) ==
  IF i > Len(logs) THEN NoKey
  ELSE LET rest == ExtractFromLastLine(logs, i + 1)
       IN  IF rest # NoKey THEN rest ELSE LineMatchFrom(logs[i], 1)

RECURSIVE ExtractFrom(_, _)
ExtractFrom(logs, i) ==
  IF i > Len(logs) THEN NoKey
  ELSE LET m == LineMatchFrom(logs[i], 1)
       IN  IF m # NoKey THEN m ELSE ExtractFrom(logs, i + 1)

extractLaunchPubkey(logs) == ExtractFrom(logs, 1)

\* ------------------------------------------------------------- variables
VARIABLES
  \* parser specification
  pLogs,      \* the event's log lines
  pKind,      \* detectInstruction(pLogs) as returned by the first call
  pAgain,     \* detectInstruction(pLogs) as returned by a repeated call
  pBetween,   \* the result of the last call made on other logs in between
  pLoyal,     \* geyserIsCompleteLaunchTransaction(pLogs), extractLaunchPubkey(pLogs)
  pCalls,     \* calls of detectInstruction made so far
  \* YellowstoneUnifiedStream
  endpoint,             \* TRUE when this.endpoint is a non-empty string
  stream,               \* this.stream: 0 for null, else the subscription's number
  live,                 \* subscriptions opened and not yet ended or errored
  opened,               \* subscriptions opened so far
  latestBlockhash,      \* this.latestBlockhash (NoHash for null)
  latestBlockHeight,    \* this.latestBlockHeight
  blockhashLastUpdate,  \* this.blockhashLastUpdate
  isStreaming,          \* this.isStreaming
  txCallbacks,          \* keys of this.txCallbacks
  timers,               \* setInterval timers started by startBlockhashRefresh
  pendingFetch,         \* fetchBlockhashFromSlot calls started by slot frames, in flight
  startPc,              \* where a startUnifiedStream call stands
  now,                  \* Date.now(), in seconds
  \* observations of the client's callers
  stopsInARow,          \* stopStreaming calls since the last other operation
  stopThrew,            \* the last stopStreaming call raised an error
  gbh,                  \* what the last TransactionExecutor.getBlockhash call did
  dispatched,           \* what the last operation did if it was the dispatch of
                        \* a transaction frame to the registered callbacks
  \* the orchestrator, its pool creator and the process
  orch,         \* "pool": AutoPoolOrchestrator, "loyal": AutoLoyalPoolOrchestrator
  oStep,        \* where start() / startMonitoring() stands
  cacheBuilt,   \* the pool creator's cache holds claimTx and createPoolTx
  cache,        \* this.cache: the two Transaction objects and positionNft
  isExecuting,  \* this.isExecuting
  hasExecuted,  \* this.hasExecuted
  execs,        \* the execute() calls in flight, each with its position
  subscribed,   \* GeyserClient.subscriptions is not empty
  exitCode,     \* the code given to process.exit, -1 while the process runs
  delivered,    \* transaction events delivered to the orchestrator so far
  \* observations of the current run
  lastEv,       \* the event handed to handleTransaction since the last step of
                \* an execution, and whether it started one
  sent,         \* the sendRawTransaction calls of the current attempt sequence
  hist,         \* errors seen in the current attempt sequence
  outcome,      \* how the last attempt sequence ended
  resultSig,    \* result.signature as reported on success (0: none)
  \* TransactionExecutor
  txConfig      \* this.config: skipPreflight and maxRetries, each set or not

parserVars == <<pLogs, pKind, pAgain, pBetween, pLoyal, pCalls>>

anchorVars == <<latestBlockhash, latestBlockHeight, blockhashLastUpdate>>

streamVars ==
  <<endpoint, stream, live, opened, latestBlockhash, latestBlockHeight,
    blockhashLastUpdate, isStreaming, txCallbacks, timers, pendingFetch,
    startPc, now, stopsInARow, stopThrew, gbh, dispatched>>

orchVars ==
  <<orch, oStep, cacheBuilt, cache, isExecuting, hasExecuted, execs, subscribed,
    exitCode, delivered, lastEv, sent, hist, outcome, resultSig>>

vars == <<parserVars, txConfig, streamVars, orchVars>>

\* ------------------------------------------------ parser specification
NotCalled == "notCalled"

NoHash == "null"

ParserIdle ==
  /\ pLogs = <<>>
  /\ pKind = NotCalled
  /\ pAgain = NotCalled
  /\ pBetween = NotCalled
  /\ pLoyal = [called |-> FALSE, complete |-> FALSE, launchPubkey |-> NoKey]
  /\ pCalls = 0

\* new YellowstoneUnifiedStream(endpoint, xToken)
\* an optional value: {} when undefined, {v} when set to v
Coalesce(a, b) == IF a # {} THEN a ELSE b

\* TxExecutorConfig.skipPreflight and .maxRetries as a caller may set them
ExecutorConfigs == [skipPreflight : {{}, {TRUE}, {FALSE}}, maxRetries : {{}, {0}, {5}}]

\* part_000 lines 291-294: neither default is given
ConstructedConfig == [skipPreflight |-> {}, maxRetries |-> {}]

\* the callback keys used by the callers of onTransaction
ListenerIds == {"mint_trigger", "completeLaunch"}

NoDispatch ==
  [seen |-> FALSE, event |-> [logs |-> <<>>, err |-> FALSE], registered |-> {},
   active |-> FALSE, calls |-> [id \in ListenerIds |-> <<>>], caught |-> {},
   escaped |-> FALSE, frame |-> {}]

StreamConstructed ==
  /\ endpoint \in BOOLEAN
  /\ stream = 0
  /\ live = {}
  /\ opened = 0
  /\ latestBlockhash = NoHash
  /\ latestBlockHeight = 0
  /\ blockhashLastUpdate = 0
  /\ isStreaming = FALSE
  /\ txCallbacks = {}
  /\ timers = 0
  /\ pendingFetch = 0
  /\ startPc = "idle"
  /\ now = 1
  /\ stopsInARow = 0
  /\ stopThrew = FALSE
  /\ gbh = [source |-> "none", age |-> 0]
  /\ dispatched = NoDispatch

NoEvent == [logs |-> <<>>, err |-> FALSE, started |-> FALSE, seen |-> FALSE]

NoTrigger == [logs |-> <<>>, err |-> FALSE]

\* no error has reached the classification of the outer catch block
NotClassified == {"none"}

\* what executeInSingleSlot of the Loyal creator found: the launch state and
\* the funding record; "notFetched" before it has read them
NoGate == [state |-> "notFetched", record |-> "notFetched"]

NoHist ==
  [createInUse |-> FALSE, fallbackFailed |-> FALSE, claimedAt |-> 0,
   trigger |-> NoTrigger, endErr |-> NotClassified, gate |-> NoGate]

\* tx.recentBlockhash never assigned; call: the transmission whose
\* sendAndSign call assigned it
NoStamp == [call |-> 0]

NoIdentity == [origin |-> "none", call |-> 0]

\* this.wallet
Wallet == [origin |-> "wallet", call |-> 0]

\* buildPoolCreationTx line 408: Keypair.generate()
PreBuiltNft == [origin |-> "preBuild", call |-> 0]

\* a Transaction as its builder returns it; positionNft: the identity whose
\* address the instructions embed
BuiltTx(nft) == [recentBlockhash |-> NoStamp, signatures |-> {}, positionNft |-> nft]

\* this.cache = {} at construction
EmptyCache ==
  [claimTx |-> BuiltTx(NoIdentity), createPoolTx |-> BuiltTx(NoIdentity),
   positionNft |-> NoIdentity]

\* preBuildTransaction lines 475-483
PreBuiltCache ==
  [claimTx |-> BuiltTx(NoIdentity), createPoolTx |-> BuiltTx(PreBuiltNft),
   positionNft |-> PreBuiltNft]

\* no orchestrator constructed: the stream client or the parsers on their own
NoOrchestrator ==
  /\ orch = "none"
  /\ oStep = "init"
  /\ cacheBuilt = FALSE
  /\ cache = EmptyCache
  /\ isExecuting = FALSE
  /\ hasExecuted = FALSE
  /\ execs = <<>>
  /\ subscribed = FALSE
  /\ exitCode = -1
  /\ delivered = 0
  /\ lastEv = NoEvent
  /\ sent = <<>>
  /\ hist = NoHist
  /\ outcome = "none"
  /\ resultSig = 0

InitParser ==
  /\ txConfig = ConstructedConfig
  /\ pLogs \in LogInputs
  /\ pKind = NotCalled
  /\ pAgain = NotCalled
  /\ pBetween = NotCalled
  /\ pLoyal = [called |-> FALSE, complete |-> FALSE, launchPubkey |-> NoKey]
  /\ pCalls = 0
  /\ StreamConstructed
  /\ endpoint = TRUE
  /\ NoOrchestrator

\* first call on the event
Classify ==
  /\ pKind = NotCalled
  /\ pKind' = parseMetaDAOTransaction(pLogs).instructionType
  /\ pCalls' = pCalls + 1
  /\ UNCHANGED <<pLogs, pAgain, pBetween, pLoyal, streamVars, orchVars, txConfig>>

\* a call on some other event in between
ClassifyOther ==
  /\ pKind # NotCalled
  /\ pAgain = NotCalled
  /\ pCalls < 2
  /\ \E other \in { <<>>, <<LineCompleteLaunch>>, <<LineRefund>>, <<LineInvoke>> } :
        pBetween' = parseMetaDAOTransaction(other).instructionType
  /\ pCalls' = pCalls + 1
  /\ UNCHANGED <<pLogs, pKind, pAgain, pLoyal, streamVars, orchVars, txConfig>>

\* a repeated call on the same event
ClassifyAgain ==
  /\ pKind # NotCalled
  /\ pAgain = NotCalled
  /\ pAgain' = parseMetaDAOTransaction(pLogs).instructionType
  /\ pCalls' = pCalls + 1
  /\ UNCHANGED <<pLogs, pKind, pBetween, pLoyal, streamVars, orchVars, txConfig>>

\* the log-subscription client's classifier and the correlation id
ClassifyLoyal ==
  /\ ~pLoyal.called
  /\ pLoyal' = [called |-> TRUE,
                complete |-> geyserIsCompleteLaunchTransaction(pLogs),
                launchPubkey |-> extractLaunchPubkey(pLogs)]
  /\ UNCHANGED <<pLogs, pKind, pAgain, pBetween, pCalls, streamVars, orchVars, txConfig>>

NextParser == Classify \/ ClassifyOther \/ ClassifyAgain \/ ClassifyLoyal

SpecParser == InitParser /\ [][NextParser]_vars

\* ------------------------------------------- YellowstoneUnifiedStream
Hashes == {"hA"}

\* what a block frame, a blockMeta frame or an RPC reply may carry
Anchors == [blockhash : Hashes, height : 0..MaxHeight]

\* getLatestBlockhash(): isNull stands for the null result
getLatestBlockhash ==
  IF latestBlockhash = NoHash
  THEN [isNull |-> TRUE, blockhash |-> NoHash, blockHeight |-> 0]
  ELSE [isNull |-> FALSE, blockhash |-> latestBlockhash,
        blockHeight |-> latestBlockHeight]

isActive == isStreaming /\ latestBlockhash # NoHash

getBlockhashAge == now - blockhashLastUpdate

\* the three assignments every anchor update makes
SetAnchor(a) ==
  /\ latestBlockhash' = a.blockhash
  /\ latestBlockHeight' = a.height
  /\ blockhashLastUpdate' = now

NotAStop == stopsInARow' = 0 /\ stopThrew' = FALSE

NotAFrame == dispatched' = NoDispatch

Running == exitCode = -1

\* startUnifiedStream up to its first await; caller: who awaits the call
StartUnifiedStreamCall ==
  /\ startPc = "idle"
  /\ opened < MaxStreams
  /\ startPc' = IF isStreaming THEN "returned"
                ELSE IF ~endpoint THEN "threw"
                ELSE "subscribing"
  /\ NotAStop
  /\ NotAFrame
  /\ UNCHANGED <<endpoint, stream, live, opened, anchorVars, isStreaming,
                 txCallbacks, timers, pendingFetch, now>>

\* client.subscribe() resolves: handlers attached, request written
SubscribeOk ==
  /\ Running
  /\ startPc = "subscribing"
  /\ opened' = opened + 1
  /\ stream' = opened + 1
  /\ live' = live \cup {opened + 1}
  /\ startPc' = "initialFetch"
  /\ NotAStop
  /\ NotAFrame
  /\ UNCHANGED <<endpoint, anchorVars, isStreaming, txCallbacks, timers,
                 pendingFetch, now, gbh>>
  /\ UNCHANGED <<parserVars, txConfig, orchVars>>

\* loadYellowstoneClient, new Client or subscribe throws
SubscribeFail ==
  /\ Running
  /\ startPc = "subscribing"
  /\ startPc' = "threw"
  /\ NotAStop
  /\ NotAFrame
  /\ UNCHANGED <<endpoint, stream, live, opened, anchorVars, isStreaming,
                 txCallbacks, timers, pendingFetch, now, gbh>>
  /\ UNCHANGED <<parserVars, txConfig, orchVars>>

\* client.getLatestBlockhash resolves; hasHash: blockhashData?.blockhash is set
InitialFetchReply(replies) ==
  /\ Running
  /\ startPc = "initialFetch"
  /\ timers < MaxTimers
  /\ \/ \E a \in replies :
          /\ SetAnchor(a)
          /\ isStreaming' = TRUE
          /\ timers' = timers + 1
     \/ UNCHANGED <<anchorVars, isStreaming, timers>>
  /\ startPc' = "returned"
  /\ NotAStop
  /\ NotAFrame
  /\ UNCHANGED <<endpoint, stream, live, opened, txCallbacks, pendingFetch, now, gbh>>
  /\ UNCHANGED <<parserVars, txConfig, orchVars>>

\* client.getLatestBlockhash throws: await this.fetchBlockhashFromSlot()
InitialFetchFail ==
  /\ Running
  /\ startPc = "initialFetch"
  /\ startPc' = "fallbackFetch"
  /\ NotAStop
  /\ NotAFrame
  /\ UNCHANGED <<endpoint, stream, live, opened, anchorVars, isStreaming,
                 txCallbacks, timers, pendingFetch, now, gbh>>
  /\ UNCHANGED <<parserVars, txConfig, orchVars>>

\* the body of fetchBlockhashFromSlot once the RPC reply is in
FetchBlockhashFromSlotReply(a) ==
  /\ SetAnchor(a)
  /\ isStreaming' = TRUE
  /\ timers' = IF isStreaming THEN timers ELSE timers + 1

\* fetchBlockhashFromSlot awaited by startUnifiedStream
FallbackFetchReply(replies) ==
  /\ Running
  /\ startPc = "fallbackFetch"
  /\ isStreaming \/ timers < MaxTimers
  /\ \/ \E a \in replies : FetchBlockhashFromSlotReply(a)
     \/ UNCHANGED <<anchorVars, isStreaming, timers>>
  /\ startPc' = "returned"
  /\ NotAStop
  /\ NotAFrame
  /\ UNCHANGED <<endpoint, stream, live, opened, txCallbacks, pendingFetch, now, gbh>>
  /\ UNCHANGED <<parserVars, txConfig, orchVars>>

\* a block or blockMeta frame as it arrives: its blockhash may be absent
BlockFrames == Anchors \cup {[blockhash |-> NoHash, height |-> 0]}

\* a 'data' handler that marks the client streaming on any block frame
StoreBlockUnguarded(f) ==
  /\ SetAnchor(f)
  /\ isStreaming' = TRUE

\* if (data.block?.blockhash) { ... } and if (data.blockMeta?.blockhash) { ... }
StoreBlock(f) ==
  IF f.blockhash # NoHash
  THEN /\ SetAnchor(f)
       /\ isStreaming' = TRUE
  ELSE UNCHANGED <<anchorVars, isStreaming>>

\* stream 'data' with data.block or data.blockMeta
BlockFrame ==
  /\ Running
  /\ \E s \in live, f \in BlockFrames : StoreBlock(f)
  /\ NotAStop
  /\ NotAFrame
  /\ UNCHANGED <<endpoint, stream, live, opened, txCallbacks, timers,
                 pendingFetch, startPc, now, gbh>>
  /\ UNCHANGED <<parserVars, txConfig, orchVars>>

\* stream 'data' with data.slot while not streaming: a fetch is started
SlotFrame ==
  /\ Running
  /\ live # {}
  /\ ~isStreaming
  /\ pendingFetch < MaxPending
  /\ pendingFetch' = pendingFetch + 1
  /\ NotAStop
  /\ NotAFrame
  /\ UNCHANGED <<endpoint, stream, live, opened, anchorVars, isStreaming,
                 txCallbacks, timers, startPc, now, gbh>>
  /\ UNCHANGED <<parserVars, txConfig, orchVars>>

\* a fetch started by a slot frame completes (or fails: catch { })
SlotFetchDone ==
  /\ Running
  /\ pendingFetch > 0
  /\ isStreaming \/ timers < MaxTimers
  /\ pendingFetch' = pendingFetch - 1
  /\ \/ \E a \in Anchors : FetchBlockhashFromSlotReply(a)
     \/ UNCHANGED <<anchorVars, isStreaming, timers>>
  /\ NotAStop
  /\ NotAFrame
  /\ UNCHANGED <<endpoint, stream, live, opened, txCallbacks, startPc, now, gbh>>
  /\ UNCHANGED <<parserVars, txConfig, orchVars>>

\* a tick of a startBlockhashRefresh interval whose RPC call succeeds
RefreshTick ==
  /\ Running
  /\ timers > 0
  /\ \E a \in Anchors : SetAnchor(a)
  /\ NotAStop
  /\ NotAFrame
  /\ UNCHANGED <<endpoint, stream, live, opened, isStreaming, txCallbacks,
                 timers, pendingFetch, startPc, now, gbh>>
  /\ UNCHANGED <<parserVars, txConfig, orchVars>>

\* 'error' and 'end' handlers that only log
StreamErrorOrEndKeepsStreaming ==
  /\ Running
  /\ \E s \in live : live' = live \ {s}
  /\ NotAStop
  /\ NotAFrame
  /\ UNCHANGED <<endpoint, stream, opened, anchorVars, isStreaming, txCallbacks,
                 timers, pendingFetch, startPc, now, gbh>>
  /\ UNCHANGED <<parserVars, txConfig, orchVars>>

\* stream 'error' or stream 'end'
StreamErrorOrEnd ==
  /\ Running
  /\ \E s \in live : live' = live \ {s}
  /\ isStreaming' = FALSE
  /\ NotAStop
  /\ NotAFrame
  /\ UNCHANGED <<endpoint, stream, opened, anchorVars, txCallbacks, timers,
                 pendingFetch, startPc, now, gbh>>
  /\ UNCHANGED <<parserVars, txConfig, orchVars>>

StreamView ==
  [stream |-> stream, isStreaming |-> isStreaming, txCallbacks |-> txCallbacks,
   threw |-> FALSE]

\* a stopStreaming that calls this.stream.end() without testing this.stream
stopStreamingUnguarded(v) ==
  IF v.stream = 0 THEN [v EXCEPT !.threw = TRUE]
  ELSE [stream |-> 0, isStreaming |-> FALSE, txCallbacks |-> {}, threw |-> FALSE]

stopStreaming(v) ==
  [stream |-> 0, isStreaming |-> FALSE, txCallbacks |-> {}, threw |-> FALSE]

\* the effect of one stopStreaming call on the client
StopStreamingCall ==
  /\ stream' = stopStreaming(StreamView).stream
  /\ isStreaming' = stopStreaming(StreamView).isStreaming
  /\ txCallbacks' = stopStreaming(StreamView).txCallbacks
  /\ stopThrew' = stopStreaming(StreamView).threw
  /\ stopsInARow' = IF stopsInARow < 2 THEN stopsInARow + 1 ELSE 2
  /\ NotAFrame
  /\ UNCHANGED <<endpoint, live, opened, anchorVars, timers, pendingFetch,
                 startPc, now>>

\* onTransaction(id, callback)
OnTransactionCall(id) ==
  /\ txCallbacks' = txCallbacks \cup {id}
  /\ NotAStop
  /\ NotAFrame
  /\ UNCHANGED <<endpoint, stream, live, opened, anchorVars, isStreaming,
                 timers, pendingFetch, startPc, now>>

\* a transaction frame as it arrives, data.transaction.transaction present;
\* every field is {} when absent and {v} when it holds v. accountKeys may
\* hold a null key; slot is a decimal string
FullMeta == [logMessages |-> {<<LineCompleteLaunch>>}, err |-> {"InstructionError"}]

FullFrame ==
  [signature |-> {"sigBytes"}, accountKeys |-> {<<"keyBytes", "null">>},
   meta |-> {FullMeta}, slot |-> {"5"}]

EmptyFrame == [signature |-> {}, accountKeys |-> {}, meta |-> {}, slot |-> {}]

\* the frames received: complete, lacking every field, and with a meta that
\* lacks its log messages or its err
TxFrames ==
  {FullFrame, EmptyFrame,
   [FullFrame EXCEPT !.meta = {[FullMeta EXCEPT !.logMessages = {}]}],
   [FullFrame EXCEPT !.meta = {[FullMeta EXCEPT !.err = {}]}]}

\* the one value of an optional field that is set
TheValue(opt) == CHOOSE v \in opt : TRUE

\* bs58.encode(Buffer.from(bytes))
Bs58Encode(bytes) == <<"bs58", bytes>>

\* line 85: parseInt of the decimal strings the frames carry
ParseInt(str) == IF str = "5" THEN 5 ELSE 0

\* lines 78-80: null keys become '' and are filtered out
EncodeKeys(keys) ==
  LET enc == [k \in 1..Len(keys) |->
                IF keys[k] = "null" THEN "" ELSE Bs58Encode(keys[k])]
  IN  SelectSeq(enc, LAMBDA a : a # "")

\* NaN, the result of parseInt(undefined)
NaN == 0 - 1

\* a decode whose slot has no '0' default: parseInt(data.transaction.slot)
NormalizedEventNoSlotDefault(f) ==
  [signature |-> IF f.signature # {} THEN Bs58Encode(TheValue(f.signature)) ELSE "",
   slot |-> IF f.slot # {} THEN ParseInt(TheValue(f.slot)) ELSE NaN,
   accounts |-> EncodeKeys(IF f.accountKeys # {} THEN TheValue(f.accountKeys) ELSE <<>>),
   logs |-> IF f.meta # {} /\ TheValue(f.meta).logMessages # {}
            THEN TheValue(TheValue(f.meta).logMessages) ELSE <<>>,
   err |-> f.meta # {} /\ TheValue(f.meta).err # {}]

\* lines 71-85 and 89: the event handed to every callback; err: FALSE for null
NormalizedEvent(f) ==
  [signature |-> IF f.signature # {} THEN Bs58Encode(TheValue(f.signature)) ELSE "",
   slot |-> ParseInt(IF f.slot # {} THEN TheValue(f.slot) ELSE "0"),
   accounts |-> EncodeKeys(IF f.accountKeys # {} THEN TheValue(f.accountKeys) ELSE <<>>),
   logs |-> IF f.meta # {} /\ TheValue(f.meta).logMessages # {}
            THEN TheValue(TheValue(f.meta).logMessages) ELSE <<>>,
   err |-> f.meta # {} /\ TheValue(f.meta).err # {}]

\* the orders in which a Map may hold the keys S
Orders(S) ==
  {q \in [1..Cardinality(S) -> S] :
     \A a, b \in 1..Cardinality(S) : q[a] = q[b] => a = b}

\* the state of a dispatch before the first callback is called
StartDispatch(ev) ==
  [seen |-> TRUE, event |-> ev, registered |-> txCallbacks, active |-> isActive,
   calls |-> [id \in ListenerIds |-> <<>>], caught |-> {}, escaped |-> FALSE,
   frame |-> {}]

\* a forEach whose body calls the callback outside any try block: the first
\* error ends the loop and leaves the 'data' handler
RECURSIVE forEachCallbackNoTry(_, _, _, _)
forEachCallbackNoTry(order, failing, ev, d) ==
  IF order = <<>> THEN d
  ELSE LET id == Head(order)
           called == [d EXCEPT !.calls[id] = Append(@, ev)]
       IN  IF id \in failing THEN [called EXCEPT !.escaped = TRUE]
           ELSE forEachCallbackNoTry(Tail(order), failing, ev, called)

\* lines 87-93: txCallbacks.forEach(callback => { try { callback(ev) }
\* catch (error) { console.error(...) } }); failing: the callbacks that throw
RECURSIVE forEachCallback(_, _, _, _)
forEachCallback(order, failing, ev, d) ==
  IF order = <<>> THEN d
  ELSE LET id == Head(order)
           called == [d EXCEPT !.calls[id] = Append(@, ev)]
       IN  forEachCallback(Tail(order), failing, ev,
             IF id \in failing THEN [called EXCEPT !.caught = @ \cup {id}]
             ELSE called)

\* one period of the refresh interval passes
Tick ==
  /\ Running
  /\ now + RefreshSeconds <= MaxTime
  /\ now' = now + RefreshSeconds
  /\ UNCHANGED <<endpoint, stream, live, opened, anchorVars, isStreaming,
                 txCallbacks, timers, pendingFetch, startPc, stopsInARow,
                 stopThrew, gbh, dispatched>>
  /\ UNCHANGED <<parserVars, txConfig, orchVars>>

\* ------------------------------------------------- TransactionExecutor
\* a getBlockhash that tests the cached value only
getBlockhashIgnoresActive ==
  IF ~getLatestBlockhash.isNull
  THEN [source |-> "cached", age |-> getBlockhashAge]
  ELSE [source |-> "direct", age |-> getBlockhashAge]

\* getBlockhash with useGrpcBlockhash: true: where the blockhash comes from
\* ("direct": await connection.getLatestBlockhash('finalized')), and the age
\* of the cached anchor at the call
getBlockhash ==
  IF ~getLatestBlockhash.isNull /\ isActive
  THEN [source |-> "cached", age |-> getBlockhashAge]
  ELSE [source |-> "direct", age |-> getBlockhashAge]

\* a sendClaim that passes no options
sendClaimNoOptions == [skipPreflight |-> {}, maxRetries |-> {}]

\* line 52: the options sendClaim passes
sendClaimOptions == [skipPreflight |-> {FALSE}, maxRetries |-> {2}]

\* line 56: the options sendPoolCreation passes
sendPoolCreationOptions == [skipPreflight |-> {TRUE}, maxRetries |-> {0}]

\* line 60: the options sendAddLiquidity passes
sendAddLiquidityOptions == [skipPreflight |-> {FALSE}, maxRetries |-> {}]

OptionsOf(kind) ==
  CASE kind = "claim" -> sendClaimOptions
    [] kind = "create" -> sendPoolCreationOptions
    [] OTHER -> sendAddLiquidityOptions

\* lines 43-46: options?.x ?? this.config.x ?? default
sendOptions(options, config) ==
  [skipPreflight |-> Coalesce(options.skipPreflight,
                              Coalesce(config.skipPreflight, {FALSE})),
   maxRetries |-> Coalesce(options.maxRetries, Coalesce(config.maxRetries, {2}))]

\* addLiquidityToExistingPool line 541: Keypair.generate() by the caller of
\* the sendAndSign call that makes transmission number call
FreshNft(call) == [origin |-> "addLiquidity", call |-> call]

\* the Transaction the caller hands to sendAndSign
PayloadOf(kind, call) ==
  CASE kind = "claim" -> cache.claimTx
    [] kind = "create" -> cache.createPoolTx
    [] OTHER -> BuiltTx(FreshNft(call))

\* a sendPoolCreation that signs with a keypair generated for the call
SignersRegenerated(kind, call) ==
  CASE kind = "claim" -> {Wallet}
    [] OTHER -> {Wallet, FreshNft(call)}

\* the signers the caller hands to sendAndSign
SignersOf(kind, call) ==
  CASE kind = "claim" -> {Wallet}
    [] kind = "create" -> {Wallet, cache.positionNft}
    [] OTHER -> {Wallet, FreshNft(call)}

\* a sendAndSign that stamps a transaction only if it carries no blockhash
sendAndSignKeepsStamp(tx, signers, call) ==
  [tx EXCEPT !.recentBlockhash = IF @ = NoStamp THEN [call |-> call] ELSE @,
             !.signatures = signers]

\* lines 34-41: tx.recentBlockhash = await this.getBlockhash(); tx.sign or
\* tx.partialSign; the Transaction object is changed in place
sendAndSign(tx, signers, call) ==
  [tx EXCEPT !.recentBlockhash = [call |-> call], !.signatures = signers]

\* this.cache after the sendAndSign call of transmission number call has
\* stamped and signed
CacheAfter(kind, call) ==
  CASE kind = "claim" ->
         [cache EXCEPT !.claimTx = sendAndSign(@, SignersOf(kind, call), call)]
    [] kind = "create" ->
         [cache EXCEPT !.createPoolTx = sendAndSign(@, SignersOf(kind, call), call)]
    [] OTHER -> cache

\* what one sendRawTransaction call of sendAndSign is given and how it ends;
\* tx: what tx.serialize() reads, stamped and signed as the transmission
\* number Len(sent) + 1 of the attempt sequence
Submission(kind, ok, attempt) ==
  [kind |-> kind, ok |-> ok, attempt |-> attempt, stamp |-> getBlockhash.source,
   opts |-> sendOptions(OptionsOf(kind), txConfig),
   tx |-> sendAndSign(PayloadOf(kind, Len(sent) + 1),
                      SignersOf(kind, Len(sent) + 1), Len(sent) + 1)]

\* ---------------------------------- the stream client used on its own
InitialFetchOk == InitialFetchReply(Anchors)

FallbackFetch == FallbackFetchReply(Anchors)

ApiStart ==
  /\ StartUnifiedStreamCall
  /\ UNCHANGED <<gbh, parserVars, txConfig, orchVars>>

\* the caller takes the result of startUnifiedStream
ApiStartDone ==
  /\ startPc \in {"returned", "threw"}
  /\ startPc' = "idle"
  /\ NotAStop
  /\ NotAFrame
  /\ UNCHANGED <<endpoint, stream, live, opened, anchorVars, isStreaming,
                 txCallbacks, timers, pendingFetch, now, gbh>>
  /\ UNCHANGED <<parserVars, txConfig, orchVars>>

ApiStop ==
  /\ StopStreamingCall
  /\ UNCHANGED <<gbh, parserVars, txConfig, orchVars>>

ApiOnTransaction ==
  /\ "mint_trigger" \notin txCallbacks
  /\ OnTransactionCall("mint_trigger")
  /\ UNCHANGED <<gbh, parserVars, txConfig, orchVars>>

\* onTransaction called with any of the keys
ApiOnAnyTransaction ==
  /\ \E id \in ListenerIds : id \notin txCallbacks /\ OnTransactionCall(id)
  /\ UNCHANGED <<gbh, parserVars, txConfig, orchVars>>

\* stream 'data' with data.transaction, lines 70-94
ApiTransactionFrame ==
  /\ live # {}
  /\ \E f \in TxFrames, failing \in SUBSET txCallbacks, order \in Orders(txCallbacks) :
        dispatched' = [forEachCallback(order, failing, NormalizedEvent(f),
                                       StartDispatch(NormalizedEvent(f)))
                         EXCEPT !.frame = {f}]
  /\ NotAStop
  /\ UNCHANGED <<endpoint, stream, live, opened, anchorVars, isStreaming,
                 txCallbacks, timers, pendingFetch, startPc, now, gbh>>
  /\ UNCHANGED <<parserVars, txConfig, orchVars>>

ApiGetBlockhash ==
  /\ gbh' = getBlockhash
  /\ UNCHANGED <<endpoint, stream, live, opened, anchorVars, isStreaming,
                 txCallbacks, timers, pendingFetch, startPc, now, stopsInARow,
                 stopThrew, dispatched>>
  /\ UNCHANGED <<parserVars, txConfig, orchVars>>

InitStream ==
  /\ txConfig = ConstructedConfig
  /\ ParserIdle
  /\ StreamConstructed
  /\ NoOrchestrator

NextStream ==
  \/ ApiStart \/ ApiStartDone \/ SubscribeOk \/ SubscribeFail
  \/ InitialFetchOk \/ InitialFetchFail \/ FallbackFetch
  \/ BlockFrame \/ SlotFrame \/ SlotFetchDone \/ RefreshTick
  \/ StreamErrorOrEnd \/ ApiStop \/ ApiOnTransaction \/ Tick \/ ApiGetBlockhash

SpecStream == InitStream /\ [][NextStream]_vars

\* the stream client with its listeners: start, frames, stop
NextDispatch ==
  \/ ApiStart \/ ApiStartDone \/ SubscribeOk \/ SubscribeFail \/ InitialFetchOk
  \/ BlockFrame \/ StreamErrorOrEnd \/ ApiStop
  \/ ApiOnAnyTransaction \/ ApiTransactionFrame

SpecDispatch == InitStream /\ [][NextDispatch]_vars

\* ------------------------------ the executor used on its own
\* sendClaim, sendPoolCreation or sendAddLiquidity up to the end of its
\* sendRawTransaction call
ExecSend(kind) ==
  /\ Len(sent) < MaxCalls
  /\ gbh' = getBlockhash
  /\ \E ok \in BOOLEAN : sent' = Append(sent, Submission(kind, ok, 1))
  /\ cache' = CacheAfter(kind, Len(sent) + 1)
  /\ UNCHANGED <<endpoint, stream, live, opened, anchorVars, isStreaming,
                 txCallbacks, timers, pendingFetch, startPc, now, stopsInARow,
                 stopThrew, dispatched>>
  /\ UNCHANGED <<parserVars, txConfig, orch, oStep, cacheBuilt, isExecuting,
                 hasExecuted, execs, subscribed, exitCode, delivered, lastEv,
                 hist, outcome, resultSig>>

ExecSendClaim == ExecSend("claim")

ExecSendPoolCreation == ExecSend("create")

ExecSendAddLiquidity == ExecSend("addLiquidity")

InitExecutor ==
  /\ txConfig \in ExecutorConfigs
  /\ ParserIdle
  /\ StreamConstructed
  /\ endpoint = TRUE
  /\ NoOrchestrator

NextExecutor == ExecSendClaim \/ ExecSendPoolCreation \/ ExecSendAddLiquidity

SpecExecutor == InitExecutor /\ [][NextExecutor]_vars

\* ------------------------------------------------------ the orchestrators
\* what the stream may deliver: log lines and the transaction's err
EventLogs ==
  { <<LineCompleteLaunch>>, <<LineCompleteLaunch, LineIdTarget>>,
    <<LineCompleteLaunch, LineIdOther>>, <<LineRefund>> }

Events == [logs : EventLogs, err : BOOLEAN]

\* the substrings the catch blocks look for in error.message:
\* "inUse": 'already in use', "claimed": 'already claimed',
\* "noRecord": 'No funding record'
ErrorInputs == { {}, {"inUse"}, {"claimed"}, {"noRecord"}, {"inUse", "claimed"} }

NewExec(pc) == [pc |-> pc, attempt |-> 1, fb |-> FALSE, err |-> {}]

RemoveAt(q, i) == [k \in 1..(Len(q) - 1) |-> IF k < i THEN q[k] ELSE q[k + 1]]

\* the orchestrator's fields and the process, as one value
OState ==
  [execs |-> execs, isExecuting |-> isExecuting, hasExecuted |-> hasExecuted,
   exitCode |-> exitCode, outcome |-> outcome, resultSig |-> resultSig,
   stop |-> FALSE, endErr |-> hist.endErr]

\* o becomes the state; stop: stopStreaming was called on the way
Apply(o) ==
  /\ execs' = o.execs
  /\ isExecuting' = o.isExecuting
  /\ hasExecuted' = o.hasExecuted
  /\ exitCode' = o.exitCode
  /\ outcome' = o.outcome
  /\ resultSig' = o.resultSig
  /\ IF o.stop /\ orch = "pool" THEN StopStreamingCall
     ELSE /\ NotAFrame
          /\ UNCHANGED <<endpoint, stream, live, opened, anchorVars, isStreaming,
                         txCallbacks, timers, pendingFetch, startPc, now,
                         stopsInARow, stopThrew>>

\* a handleTransaction without its first line
handleTransactionGuardAbsent == FALSE

\* a handleTransaction that tests hasExecuted only
handleTransactionGuardNoReentrancy == hasExecuted

\* autoPool.ts line 47, autoLoyalPool.ts line 76: the event is skipped
handleTransactionGuard == isExecuting \/ hasExecuted

\* a success path that reports the signature of the first submission
PoolCompletedFirstSignature(i, sig) ==
  [OState EXCEPT !.execs = RemoveAt(execs, i), !.hasExecuted = TRUE,
                 !.exitCode = 0, !.outcome = "completed", !.resultSig = 1,
                 !.stop = TRUE]

\* execute(), success path: hasExecuted, stopStreaming, process.exit(0)
PoolCompleted(i, sig) ==
  [OState EXCEPT !.execs = RemoveAt(execs, i), !.hasExecuted = TRUE,
                 !.exitCode = 0, !.outcome = "completed", !.resultSig = sig,
                 !.stop = TRUE]

\* a catch block whose last line, isExecuting = false, is missing
PoolClassifyKeepsExecuting(i, e) ==
  IF "claimed" \in e \/ "noRecord" \in e
  THEN [OState EXCEPT !.execs = RemoveAt(execs, i), !.hasExecuted = TRUE,
                      !.exitCode = 1, !.outcome = "failed", !.stop = TRUE,
                      !.endErr = e]
  ELSE [OState EXCEPT !.execs = RemoveAt(execs, i), !.outcome = "recovered",
                      !.endErr = e]

\* execute(), lines 90-96: the error e once any fallback is over
PoolClassify(i, e) ==
  IF "claimed" \in e \/ "noRecord" \in e
  THEN [OState EXCEPT !.execs = RemoveAt(execs, i), !.hasExecuted = TRUE,
                      !.exitCode = 1, !.outcome = "failed", !.stop = TRUE,
                      !.endErr = e]
  ELSE [OState EXCEPT !.execs = RemoveAt(execs, i), !.isExecuting = FALSE,
                      !.outcome = "recovered", !.endErr = e]

\* an executeInstantFire that swallows the error of sendClaim and goes on to
\* the pool query
PoolFailureClaimSwallowed(i, e) ==
  LET x == execs[i]
  IN  IF x.pc = "claim" THEN [OState EXCEPT !.execs[i].pc = "poolCheck"]
      ELSE IF x.fb THEN PoolClassify(i, x.err)
      ELSE IF x.attempt = 1
      THEN [OState EXCEPT !.execs[i] = [NewExec("claim") EXCEPT !.attempt = 2]]
      ELSE IF "inUse" \in e
      THEN [OState EXCEPT !.execs[i] =
               [pc |-> "poolState", attempt |-> 2, fb |-> TRUE, err |-> e]]
      ELSE PoolClassify(i, e)

\* an await of execution i rejects with error e
PoolFailure(i, e) ==
  LET x == execs[i]
  IN  IF x.fb
      THEN \* inside the catch's addLiquidityToExistingPool: logged, and the
           \* first error is classified
           PoolClassify(i, x.err)
      ELSE IF x.attempt = 1
      THEN \* the inner catch: executeInSingleSlot() = executeInstantFire()
           [OState EXCEPT !.execs[i] = [NewExec("claim") EXCEPT !.attempt = 2]]
      ELSE IF "inUse" \in e
      THEN [OState EXCEPT !.execs[i] =
               [pc |-> "poolState", attempt |-> 2, fb |-> TRUE, err |-> e]]
      ELSE PoolClassify(i, e)

PoolAt(i, pc) == execs[i].pc = pc

SetPc(i, pc) == [OState EXCEPT !.execs[i].pc = pc]

\* an executeInstantFire without its first test
cacheReadyUnchecked == TRUE

\* part_000 lines 489-491: this.cache.claimTx && this.cache.createPoolTx
cacheReady == cacheBuilt

\* AutoPoolOrchestrator.handleTransaction up to its first await on I/O
PoolHandleTransaction(ev) ==
  IF handleTransactionGuard
     \/ ~isCompleteLaunchTransaction(parseMetaDAOTransaction(ev.logs))
  THEN /\ lastEv' = [logs |-> ev.logs, err |-> ev.err, started |-> FALSE, seen |-> TRUE]
       /\ UNCHANGED <<execs, isExecuting, hasExecuted, exitCode, outcome,
                      resultSig, sent, hist>>
  ELSE /\ lastEv' = [logs |-> ev.logs, err |-> ev.err, started |-> TRUE, seen |-> TRUE]
       /\ sent' = <<>>
       /\ hist' = [NoHist EXCEPT !.trigger = [logs |-> ev.logs, err |-> ev.err],
                                 !.endErr = IF cacheReady THEN NotClassified ELSE {}]
       /\ resultSig' = resultSig
       /\ UNCHANGED <<hasExecuted, exitCode>>
       /\ IF cacheReady
          THEN /\ execs' = Append(execs, NewExec("claim"))
               /\ isExecuting' = TRUE
               /\ outcome' = "none"
          ELSE \* executeInstantFire throws twice before any I/O: line 96
               /\ execs' = execs
               /\ isExecuting' = FALSE
               /\ outcome' = "recovered"

\* AutoPoolOrchestrator.start: getYellowstoneStream, startUnifiedStream
PoolStart ==
  /\ Running
  /\ orch = "pool"
  /\ oStep = "init"
  /\ IF endpoint
     THEN /\ StartUnifiedStreamCall
          /\ oStep' = "startingStream"
          /\ UNCHANGED exitCode
     ELSE \* getYellowstoneStream throws; main's catch exits
          /\ exitCode' = 1
          /\ oStep' = "init"
          /\ UNCHANGED <<endpoint, stream, live, opened, anchorVars, isStreaming,
                         txCallbacks, timers, pendingFetch, startPc, now,
                         stopsInARow, stopThrew, dispatched>>
  /\ UNCHANGED <<gbh, parserVars, txConfig, orch, cacheBuilt, cache, isExecuting, hasExecuted,
                 execs, subscribed, delivered, lastEv, sent, hist, outcome,
                 resultSig>>

\* a start() whose catch of the startUnifiedStream error only logs it and
\* goes on to register the listener
PoolStreamFailedIgnored ==
  /\ Running
  /\ oStep = "startingStream"
  /\ startPc = "threw"
  /\ txCallbacks' = txCallbacks \cup {"completeLaunch"}
  /\ oStep' = "prebuilding"
  /\ NotAStop
  /\ NotAFrame
  /\ UNCHANGED <<endpoint, stream, live, opened, anchorVars, isStreaming,
                 timers, pendingFetch, startPc, now, gbh>>
  /\ UNCHANGED <<parserVars, txConfig, orch, cacheBuilt, cache, isExecuting, hasExecuted, execs,
                 subscribed, exitCode, delivered, lastEv, sent, hist, outcome,
                 resultSig>>

\* startUnifiedStream threw: process.exit(1)
PoolStreamFailed ==
  /\ Running
  /\ oStep = "startingStream"
  /\ startPc = "threw"
  /\ exitCode' = 1
  /\ UNCHANGED <<parserVars, txConfig, streamVars, orch, oStep, cacheBuilt, cache, isExecuting,
                 hasExecuted, execs, subscribed, delivered, lastEv, sent, hist,
                 outcome, resultSig>>

\* startUnifiedStream returned: onTransaction('completeLaunch'), then
\* preBuildTransaction is called
PoolListen ==
  /\ Running
  /\ oStep = "startingStream"
  /\ startPc = "returned"
  /\ txCallbacks' = txCallbacks \cup {"completeLaunch"}
  /\ startPc' = "idle"
  /\ NotAStop
  /\ NotAFrame
  /\ oStep' = "prebuilding"
  /\ UNCHANGED <<endpoint, stream, live, opened, anchorVars, isStreaming,
                 timers, pendingFetch, now, gbh>>
  /\ UNCHANGED <<parserVars, txConfig, orch, cacheBuilt, cache, isExecuting, hasExecuted, execs,
                 subscribed, exitCode, delivered, lastEv, sent, hist, outcome,
                 resultSig>>

\* a start() whose catch of a preBuildTransaction error ends the process
PoolPreBuiltFatal ==
  /\ Running
  /\ oStep = "prebuilding"
  /\ cacheBuilt' \in BOOLEAN
  /\ cache' = IF cacheBuilt' THEN PreBuiltCache ELSE cache
  /\ exitCode' = IF cacheBuilt' THEN exitCode ELSE 1
  /\ oStep' = "monitoring"
  /\ UNCHANGED <<parserVars, txConfig, streamVars, orch, isExecuting, hasExecuted, execs,
                 subscribed, delivered, lastEv, sent, hist, outcome, resultSig>>

\* preBuildTransaction resolves (the cache is filled) or rejects (logged);
\* then the SIGINT handler is installed
PoolPreBuilt ==
  /\ Running
  /\ oStep = "prebuilding"
  /\ cacheBuilt' \in BOOLEAN
  /\ cache' = IF cacheBuilt' THEN PreBuiltCache ELSE cache
  /\ oStep' = "monitoring"
  /\ UNCHANGED <<parserVars, txConfig, streamVars, orch, isExecuting, hasExecuted, execs,
                 subscribed, exitCode, delivered, lastEv, sent, hist, outcome,
                 resultSig>>

\* stream 'data' with data.transaction: every callback gets the event; a
\* frame that arrives before start() has registered its listener (autoPool.ts
\* line 27) finds txCallbacks empty
TransactionFrame ==
  /\ Running
  /\ orch = "pool"
  /\ live # {}
  /\ \E ev \in Events :
        /\ IF "completeLaunch" \in txCallbacks
           THEN /\ delivered < MaxEvents
                /\ delivered' = delivered + 1
                /\ PoolHandleTransaction(ev)
           ELSE UNCHANGED <<delivered, lastEv, execs, isExecuting, hasExecuted,
                            exitCode, outcome, resultSig, sent, hist>>
        \* the listener is an async function: it never throws into the loop
        /\ \E order \in Orders(txCallbacks) :
              dispatched' = forEachCallback(order, {}, ev, StartDispatch(ev))
  /\ NotAStop
  /\ UNCHANGED <<endpoint, stream, live, opened, anchorVars, isStreaming,
                 txCallbacks, timers, pendingFetch, startPc, now, gbh>>
  /\ UNCHANGED <<parserVars, txConfig, orch, oStep, cacheBuilt, cache, subscribed>>

\* TransactionExecutor.sendAndSign for execution i at pc: getBlockhash, then
\* sendRawTransaction; next: the position after a success
PoolSubmit(i, pc, kind, next) ==
  /\ Running
  /\ orch = "pool"
  /\ PoolAt(i, pc)
  /\ gbh' = getBlockhash
  /\ \/ \* the direct blockhash fetch rejects: nothing is transmitted
        /\ getBlockhash.source = "direct"
        /\ sent' = sent
        /\ cache' = cache
        /\ hist' = [hist EXCEPT !.fallbackFailed = @ \/ kind = "addLiquidity",
                                !.endErr = PoolFailure(i, {}).endErr]
        /\ Apply(PoolFailure(i, {}))
     \/ \* sendRawTransaction resolves with a signature
        /\ sent' = Append(sent, Submission(kind, TRUE, execs[i].attempt))
        /\ cache' = CacheAfter(kind, Len(sent) + 1)
        /\ hist' = hist
        /\ Apply(IF next = "completed" THEN PoolCompleted(i, Len(sent) + 1)
                 ELSE SetPc(i, next))
     \/ \* sendRawTransaction rejects with error e
        \E e \in ErrorInputs :
          /\ sent' = Append(sent, Submission(kind, FALSE, execs[i].attempt))
          /\ cache' = CacheAfter(kind, Len(sent) + 1)
          /\ hist' = [hist EXCEPT
                        !.createInUse = @ \/ (kind = "create" /\ "inUse" \in e),
                        !.fallbackFailed = @ \/ kind = "addLiquidity",
                        !.claimedAt = IF @ = 0 /\ "claimed" \in e
                                      THEN Len(sent) + 1 ELSE @,
                        !.endErr = PoolFailure(i, e).endErr]
          /\ Apply(PoolFailure(i, e))
  /\ lastEv' = NoEvent
  /\ UNCHANGED <<parserVars, txConfig, orch, oStep, cacheBuilt, subscribed, delivered>>

\* executeInstantFire line 493: txExecutor.sendClaim
ClaimSubmitted == \E i \in 1..Len(execs) : PoolSubmit(i, "claim", "claim", "poolCheck")

\* executeInstantFire lines 497-509: txExecutor.sendPoolCreation
CreateSubmitted == \E i \in 1..Len(execs) : PoolSubmit(i, "create", "create", "completed")

\* addLiquidityToExistingPool lines 543-559: build, then sendAndSign
AddLiquiditySubmitted ==
  \E i \in 1..Len(execs) : PoolSubmit(i, "addLiqSend", "addLiquidity", "addLiqConfirm")

\* an awaited query of execution i at pc resolves (ok or other) or rejects
PoolQuery(i, pc, ok, other, inFallbackCode) ==
  /\ Running
  /\ orch = "pool"
  /\ PoolAt(i, pc)
  /\ \/ /\ Apply(ok)
        /\ hist' = hist
     \/ /\ Apply(other)
        /\ hist' = hist
     \/ /\ Apply(PoolFailure(i, {}))
        /\ hist' = [hist EXCEPT !.fallbackFailed = @ \/ inFallbackCode,
                                !.endErr = PoolFailure(i, {}).endErr]
  /\ lastEv' = NoEvent
  /\ UNCHANGED <<gbh, sent>>
  /\ UNCHANGED <<parserVars, txConfig, orch, oStep, cacheBuilt, cache, subscribed, delivered>>

\* executeInstantFire line 494: connection.getAccountInfo(poolPda)
PoolChecked ==
  \E i \in 1..Len(execs) :
     PoolQuery(i, "poolCheck", SetPc(i, "create"), SetPc(i, "poolState"), FALSE)

\* addLiquidityToExistingPool line 527: cpAmm.fetchPoolState
PoolStateFetched ==
  \E i \in 1..Len(execs) :
     PoolQuery(i, "poolState", SetPc(i, "addLiqSend"), SetPc(i, "addLiqSend"), TRUE)

\* sendAddLiquidity: connection.confirmTransaction(sig), then the result
AddLiquidityConfirmed ==
  \E i \in 1..Len(execs) :
     PoolQuery(i, "addLiqConfirm", PoolCompleted(i, Len(sent)),
               PoolCompleted(i, Len(sent)), TRUE)

\* the SIGINT handler: stopStreaming (unsubscribeAll), process.exit(0)
Sigint ==
  /\ Running
  /\ oStep = "monitoring"
  /\ Apply([OState EXCEPT !.exitCode = 0, !.outcome = "sigint", !.stop = TRUE])
  /\ subscribed' = FALSE
  /\ lastEv' = NoEvent
  /\ UNCHANGED <<gbh, parserVars, txConfig, orch, oStep, cacheBuilt, cache, delivered, sent, hist>>

\* SIGINT while start() awaits startUnifiedStream or preBuildTransaction:
\* process.on('SIGINT') at line 38 has not run yet, so the runtime's default
\* action ends the process (status 128 + 2) and no handler is called
SigintBeforeHandler ==
  /\ Running
  /\ orch = "pool"
  /\ \/ oStep = "startingStream" /\ startPc \in {"subscribing", "initialFetch", "fallbackFetch"}
     \/ oStep = "prebuilding"
  /\ exitCode' = 130
  /\ outcome' = "sigint"
  /\ lastEv' = NoEvent
  /\ UNCHANGED <<parserVars, txConfig, streamVars, orch, oStep, cacheBuilt, cache,
                 isExecuting, hasExecuted, execs, subscribed, delivered, sent,
                 hist, resultSig>>

\* AutoLoyalPoolOrchestrator.startMonitoring: subscribeToLogs, SIGINT handler
LoyalStart ==
  /\ Running
  /\ orch = "loyal"
  /\ oStep = "init"
  /\ subscribed' = TRUE
  /\ oStep' = "monitoring"
  /\ UNCHANGED <<parserVars, txConfig, streamVars, orch, cacheBuilt, cache, isExecuting,
                 hasExecuted, execs, exitCode, delivered, lastEv, sent, hist,
                 outcome, resultSig>>

\* a test that also rejects an event from which no pubkey was extracted
launchMismatchFailClosed(launchPubkey) == launchPubkey # TargetKey

\* autoLoyalPool.ts line 95: launchPubkey && launchPubkey !== target
launchMismatch(launchPubkey) ==
  launchPubkey # NoKey /\ launchPubkey # TargetKey

\* AutoLoyalPoolOrchestrator.handleTransaction up to its first await
LoyalHandleTransaction(ev) ==
  IF \/ handleTransactionGuard
     \/ ~geyserIsCompleteLaunchTransaction(ev.logs)
     \/ ev.err
     \/ launchMismatch(extractLaunchPubkey(ev.logs))
  THEN /\ lastEv' = [logs |-> ev.logs, err |-> ev.err, started |-> FALSE, seen |-> TRUE]
       /\ UNCHANGED <<execs, isExecuting, hasExecuted, exitCode, outcome,
                      resultSig, sent, hist>>
  ELSE /\ lastEv' = [logs |-> ev.logs, err |-> ev.err, started |-> TRUE, seen |-> TRUE]
       /\ sent' = <<>>
       /\ hist' = [NoHist EXCEPT !.trigger = [logs |-> ev.logs, err |-> ev.err]]
       /\ execs' = Append(execs, NewExec("settle"))
       /\ isExecuting' = TRUE
       /\ outcome' = "none"
       /\ UNCHANGED <<hasExecuted, exitCode, resultSig>>

\* the onLogs callback of GeyserClient.subscribeToLogs
LogsNotification ==
  /\ Running
  /\ orch = "loyal"
  /\ subscribed
  /\ delivered < MaxEvents
  /\ delivered' = delivered + 1
  /\ \E ev \in Events : LoyalHandleTransaction(ev)
  /\ UNCHANGED <<parserVars, txConfig, streamVars, orch, oStep, cacheBuilt, cache, subscribed>>

\* a catch block that returns to monitoring without clearing isExecuting
LoyalFailureKeepsExecuting(i, e) ==
  IF "claimed" \in e \/ "noRecord" \in e
  THEN [OState EXCEPT !.hasExecuted = TRUE, !.execs[i].pc = "unsubscribeFailed",
                      !.endErr = e]
  ELSE [OState EXCEPT !.execs = RemoveAt(execs, i), !.outcome = "recovered",
                      !.endErr = e]

\* executeClaimAndPoolCreation, the catch block: error e
LoyalFailure(i, e) ==
  IF "claimed" \in e \/ "noRecord" \in e
  THEN [OState EXCEPT !.hasExecuted = TRUE, !.execs[i].pc = "unsubscribeFailed",
                      !.endErr = e]
  ELSE [OState EXCEPT !.execs = RemoveAt(execs, i), !.isExecuting = FALSE,
                      !.outcome = "recovered", !.endErr = e]

LoyalStep(i, pc, o) ==
  /\ Running
  /\ orch = "loyal"
  /\ PoolAt(i, pc)
  /\ Apply(o)
  /\ lastEv' = NoEvent
  /\ UNCHANGED <<gbh, parserVars, txConfig, orch, oStep, cacheBuilt, cache, subscribed, delivered>>

\* the five-second setTimeout of executeClaimAndPoolCreation is over
LoyalSettled ==
  \E i \in 1..Len(execs) :
     /\ LoyalStep(i, "settle", SetPc(i, "gate"))
     /\ UNCHANGED <<sent, hist>>

\* the substrings the Loyal catch block looks for, lines 168-171
sAlreadyClaimed ==
  <<"a","l","r","e","a","d","y"," ","c","l","a","i","m","e","d">>

sNoFundingRecord ==
  <<"N","o"," ","f","u","n","d","i","n","g"," ","r","e","c","o","r","d">>

\* checkClaimStatus line 506
sAccountDoesNotExist ==
  <<"A","c","c","o","u","n","t"," ","d","o","e","s"," ","n","o","t"," ","e",
    "x","i","s","t">>

\* the messages of the errors raised on the way to the transaction
MsgTokensAlreadyClaimed ==
  <<"T","o","k","e","n","s"," ","a","l","r","e","a","d","y"," ","c","l","a",
    "i","m","e","d","!">>

MsgNoFundingRecord ==
  <<"N","o"," ","f","u","n","d","i","n","g"," ","r","e","c","o","r","d",".",
    " ","D","i","d"," ","y","o","u"," ","p","a","r","t","i","c","i","p","a",
    "t","e","?">>

MsgLaunchMustBeComplete ==
  <<"L","a","u","n","c","h"," ","m","u","s","t"," ","b","e"," ","c","o","m",
    "p","l","e","t","e","."," ","C","u","r","r","e","n","t",":"," ","l","i",
    "v","e">>

\* what fundingRecord.fetch throws when the account is not there
MsgAccountMissing ==
  <<"A","c","c","o","u","n","t"," ","d","o","e","s"," ","n","o","t"," ","e",
    "x","i","s","t"," ","o","r"," ","h","a","s"," ","n","o"," ","d","a","t",
    "a">>

\* any other RPC failure
MsgRpc ==
  <<"f","a","i","l","e","d"," ","t","o"," ","g","e","t"," ","i","n","f","o",
    " ","a","b","o","u","t"," ","a","c","c","o","u","n","t">>

\* Object.keys(launchData.state)[0]
LaunchStates == {"complete", "Complete", "live"}

\* the wallet's funding record: there and unclaimed, there and claimed, not
\* there, or not readable
FundingRecords == {"unclaimed", "claimed", "missing", "rpcError"}

\* a checkClaimStatus without the isTokensClaimed test
checkClaimStatusNoClaimedTest(record) ==
  LET thrown == CASE record = "missing" -> {MsgAccountMissing}
                  [] record = "rpcError" -> {MsgRpc}
                  [] OTHER -> {}
  IN  IF thrown = {} THEN {}
      ELSE IF Includes(TheValue(thrown), sAccountDoesNotExist)
      THEN {MsgNoFundingRecord}
      ELSE thrown

\* checkClaimStatus lines 478-511: the message of the error it throws, {}
\* when it returns the record
checkClaimStatus(record) ==
  LET thrown == CASE record = "missing" -> {MsgAccountMissing}
                  [] record = "rpcError" -> {MsgRpc}
                  [] record = "claimed" -> {MsgTokensAlreadyClaimed}
                  [] OTHER -> {}
  IN  IF thrown = {} THEN {}
      ELSE IF Includes(TheValue(thrown), sAccountDoesNotExist)
      THEN {MsgNoFundingRecord}
      ELSE thrown

\* executeInSingleSlot lines 747-754: the state test, then checkClaimStatus
LoyalGateError(state, record) ==
  IF state # "complete" /\ state # "Complete" THEN {MsgLaunchMustBeComplete}
  ELSE checkClaimStatus(record)

\* what the catch block of executeClaimAndPoolCreation finds in error.message
ErrorMarkers(msg) ==
  (IF Includes(msg, sAlreadyClaimed) THEN {"claimed"} ELSE {})
    \cup (IF Includes(msg, sNoFundingRecord) THEN {"noRecord"} ELSE {})

\* executeInSingleSlot up to the transaction: balance, launch state,
\* checkClaimStatus, the two instruction builds, the blockhash
LoyalGate ==
  \E i \in 1..Len(execs) :
     /\ \/ \* getBalance or fetchLaunchData rejects
           /\ LoyalStep(i, "gate", LoyalFailure(i, {}))
           /\ hist' = [hist EXCEPT !.endErr = {}]
        \/ \E state \in LaunchStates, record \in FundingRecords :
              LET err == LoyalGateError(state, record)
                  found == [state |-> state,
                            record |-> IF state \in {"complete", "Complete"}
                                       THEN record ELSE "notFetched"]
              IN  IF err = {}
                  THEN \/ /\ LoyalStep(i, "gate", SetPc(i, "send"))
                          /\ hist' = [hist EXCEPT !.gate = found]
                       \/ \* a build or getLatestBlockhash rejects
                          /\ LoyalStep(i, "gate", LoyalFailure(i, {}))
                          /\ hist' = [hist EXCEPT !.gate = found, !.endErr = {}]
                  ELSE /\ LoyalStep(i, "gate",
                                    LoyalFailure(i, ErrorMarkers(TheValue(err))))
                       /\ hist' = [hist EXCEPT !.gate = found,
                                      !.endErr = ErrorMarkers(TheValue(err))]
     /\ sent' = sent

\* getOrCreateATA lines 439-456: the creation instruction, or null ({}) when
\* the account exists
getOrCreateATA(exists, name) == IF exists THEN {} ELSE {name}

\* buildCreatePoolInstruction line 620: Keypair.generate() in the
\* executeInSingleSlot call that makes transmission number call
LoyalPositionNft(call) == [origin |-> "buildCreatePoolInstruction", call |-> call]

\* a transaction to which the pool creation is added before the claim
LoyalTransactionPoolFirst(loyalAtaIx, solAtaIx, call) ==
  [instructions |->
     <<"setComputeUnitPrice", "setComputeUnitLimit">>
       \o (IF loyalAtaIx # {} THEN <<TheValue(loyalAtaIx)>> ELSE <<>>)
       \o (IF solAtaIx # {} THEN <<TheValue(solAtaIx)>> ELSE <<>>)
       \o <<"createPoolIx", "claimIx">>,
   signers |-> {Wallet, LoyalPositionNft(call)}]

\* executeInSingleSlot lines 764-797: the instructions in the order of the
\* transaction.add calls, and the signers
LoyalTransaction(loyalAtaIx, solAtaIx, call) ==
  [instructions |->
     <<"setComputeUnitPrice", "setComputeUnitLimit">>
       \o (IF loyalAtaIx # {} THEN <<TheValue(loyalAtaIx)>> ELSE <<>>)
       \o (IF solAtaIx # {} THEN <<TheValue(solAtaIx)>> ELSE <<>>)
       \o <<"claimIx", "createPoolIx">>,
   signers |-> {Wallet, LoyalPositionNft(call)}]

\* what sendAndConfirmTransaction is given and how it ends; exists: whether
\* the wallet's Loyal and wrapped-SOL token accounts were found
LoyalSubmission(ok, exists) ==
  [kind |-> "claimAndCreate", ok |-> ok, attempt |-> 1, stamp |-> "direct",
   exists |-> exists,
   tx |-> LoyalTransaction(getOrCreateATA(exists.loyal, "loyalAtaIx"),
                           getOrCreateATA(exists.sol, "solAtaIx"), Len(sent) + 1)]

\* sendAndConfirmTransaction resolves or rejects
LoyalSend ==
  \E i \in 1..Len(execs) :
     \/ /\ LoyalStep(i, "send",
                     [OState EXCEPT !.hasExecuted = TRUE, !.resultSig = Len(sent) + 1,
                                    !.execs[i].pc = "unsubscribeCompleted"])
        /\ \E exists \in [loyal : BOOLEAN, sol : BOOLEAN] :
              sent' = Append(sent, LoyalSubmission(TRUE, exists))
        /\ hist' = hist
     \/ \E e \in ErrorInputs :
          /\ LoyalStep(i, "send", LoyalFailure(i, e))
          /\ \E exists \in [loyal : BOOLEAN, sol : BOOLEAN] :
                sent' = Append(sent, LoyalSubmission(FALSE, exists))
          /\ hist' = [hist EXCEPT !.claimedAt = IF @ = 0 /\ "claimed" \in e
                                               THEN Len(sent) + 1 ELSE @,
                                  !.endErr = e]

\* unsubscribeAll resolves: process.exit(0) or process.exit(1)
LoyalUnsubscribed ==
  \E i \in 1..Len(execs) :
     /\ \/ LoyalStep(i, "unsubscribeCompleted",
                     [OState EXCEPT !.exitCode = 0, !.outcome = "completed",
                                    !.execs = RemoveAt(execs, i)])
        \/ LoyalStep(i, "unsubscribeFailed",
                     [OState EXCEPT !.exitCode = 1, !.outcome = "failed",
                                    !.execs = RemoveAt(execs, i)])
     /\ UNCHANGED <<sent, hist>>

\* ------------------------------------------------------ a run of either
\* the anchor the RPC endpoints return during a run
RunAnchors == { [blockhash |-> "hA", height |-> 1] }

RunInitialFetchOk == InitialFetchReply(RunAnchors)

RunFallbackFetch == FallbackFetchReply(RunAnchors)

Init ==
  /\ txConfig = ConstructedConfig
  /\ ParserIdle
  /\ StreamConstructed
  /\ orch \in {"pool", "loyal"}
  /\ orch = "loyal" => endpoint
  /\ oStep = "init"
  /\ cacheBuilt = FALSE
  /\ cache = EmptyCache
  /\ isExecuting = FALSE
  /\ hasExecuted = FALSE
  /\ execs = <<>>
  /\ subscribed = FALSE
  /\ exitCode = -1
  /\ delivered = 0
  /\ lastEv = NoEvent
  /\ sent = <<>>
  /\ hist = NoHist
  /\ outcome = "none"
  /\ resultSig = 0

Next ==
  \/ PoolStart \/ PoolStreamFailed \/ PoolListen \/ PoolPreBuilt
  \/ SubscribeOk \/ SubscribeFail \/ RunInitialFetchOk \/ InitialFetchFail
  \/ RunFallbackFetch \/ StreamErrorOrEnd \/ TransactionFrame
  \/ ClaimSubmitted \/ PoolChecked \/ CreateSubmitted \/ PoolStateFetched
  \/ AddLiquiditySubmitted \/ AddLiquidityConfirmed \/ Sigint
  \/ SigintBeforeHandler
  \/ LoyalStart \/ LogsNotification \/ LoyalSettled \/ LoyalGate \/ LoyalSend
  \/ LoyalUnsubscribed

Spec == Init /\ [][Next]_vars

\* ------------------------------------------------- claims on the parser

\* the kinds detectInstruction can return
InstructionTypes ==
  { "completeLaunch", "initializeLaunch", "startLaunch", "fund", "refund",
    "claim", "unknown" }

NoPatternMatches(logs) ==
  LET allLogs == ToLowerCase(JoinSpace(logs))
  IN  \A i \in 1..Len(patterns) : ~PatternMatches(allLogs, patterns[i])

C5_HeightNeverDecreases == [][latestBlockHeight' >= latestBlockHeight]_vars

\* C6: a getBlockhash call made while the cached anchor is at least 5 seconds
\* old and the stream is active fetches directly and does not return the
\* cached value.
C6_StaleAnchorNotReused == ~(gbh.source = "cached" /\ gbh.age >= 5)

\* C7: stopStreaming is idempotent: after a call the client is inactive, has no
\* listeners and no stream, the call raised no error, and one more call would
\* change nothing; this holds after the first call and after the second.
C7_StopIdempotent ==
  stopsInARow >= 1 =>
     /\ ~isActive
     /\ txCallbacks = {}
     /\ stream = 0
     /\ ~stopThrew
     /\ stopStreaming(StreamView) = StreamView

\* stopStreaming was called twice in a row on a client that had been streaming
C7_Witness ==
  /\ stopsInARow = 2
  /\ opened >= 1
  /\ latestBlockhash # NoHash

\* ------------------------------------------- claims on the orchestrators

\* the event matches the target kind for the orchestrator of this run
MatchesTarget(logs) ==
  IF orch = "loyal" THEN geyserIsCompleteLaunchTransaction(logs)
  ELSE isCompleteLaunchTransaction(parseMetaDAOTransaction(logs))

\* C1: at most one execution is in flight: an event delivered to
\* handleTransaction while an execution is awaiting I/O starts no second
\* execute() / executeClaimAndPoolCreation(), changes no flag and transmits
\* nothing, so of N matching events delivered meanwhile exactly one has
\* gone from Monitoring to Executing.
C1_AtMostOneExecution ==
  /\ [](Len(execs) <= 1)
  /\ [][(isExecuting /\ delivered' = delivered + 1) =>
           /\ execs' = execs
           /\ isExecuting' /\ hasExecuted' = hasExecuted
           /\ sent' = sent
           /\ ~lastEv'.started]_vars

\* a second matching, non-failed event arrived while the first one's
\* execution was awaiting I/O, and was skipped
C1_Witness ==
  /\ Len(execs) = 1
  /\ isExecuting
  /\ delivered = 2
  /\ MatchesTarget(hist.trigger.logs)
  /\ lastEv.seen /\ ~lastEv.started
  /\ MatchesTarget(lastEv.logs) /\ ~lastEv.err
  /\ extractLaunchPubkey(lastEv.logs) = NoKey

\* the execution is over: back in Monitoring, or the process has exited
Settled == outcome \in {"completed", "failed", "recovered"}

\* C2: when the pool-creation submission of AutoPoolOrchestrator.execute fails
\* with 'already in use' and neither the pool-state query nor the
\* add-liquidity submission fails, the execution ends Completed
\* (hasExecuted, stream stopped, exit code 0) and never Failed or back in
\* Monitoring.
C2_ConflictFallbackCompletes ==
  (orch = "pool" /\ hist.createInUse /\ ~hist.fallbackFailed /\ Settled) =>
     /\ outcome = "completed"
     /\ hasExecuted
     /\ ~isActive
     /\ exitCode = 0

\* C3: once a submission has failed with 'already claimed' nothing more is
\* transmitted, and the execution ends Failed (hasExecuted, the stream
\* stopped) with exit code 1.
C3_AlreadyClaimedIsFatal ==
  hist.claimedAt > 0 =>
     /\ Len(sent) = hist.claimedAt
     /\ Settled => /\ outcome = "failed"
                   /\ hasExecuted
                   /\ exitCode = 1
                   /\ orch = "pool" => ~isActive

\* every transmission so far was a first-attempt success outside the
\* add-liquidity path: the claim, then the pool creation
AllSucceeded ==
  \A k \in 1..Len(sent) :
     /\ sent[k].ok
     /\ sent[k].attempt = 1
     /\ sent[k].kind \in {"claim", "create"}

\* C4: with the pre-build done, a non-failed 'Instruction: CompleteLaunch'
\* event without a correlation id, every submission succeeding and no pool
\* yet: the claim is submitted, then the pool creation, the run is Completed
\* (exit code 0) and the reported signature is the pool creation's, not
\* the claim's.
C4_EndToEnd ==
  (orch = "pool" /\ AllSucceeded) =>
     /\ Len(sent) <= 2
     /\ Len(sent) >= 1 => sent[1].kind = "claim" /\ cacheBuilt
     /\ Len(sent) = 1 => outcome # "completed"
     /\ Len(sent) = 2 =>
           /\ sent[2].kind = "create"
           /\ outcome = "completed"
           /\ resultSig = 2
           /\ sent[resultSig].kind = "create"
           /\ hasExecuted
           /\ ~isActive
           /\ exitCode = 0

\* the run of the scenario, finished
C4_Witness ==
  /\ orch = "pool"
  /\ cacheBuilt
  /\ hist.trigger = [logs |-> <<LineCompleteLaunch>>, err |-> FALSE]
  /\ AllSucceeded
  /\ Len(sent) = 2
  /\ outcome = "completed"
  /\ resultSig = 2

\* C9: an event of the target kind with err non-null never starts an
\* execution, in either orchestrator.
C9_FailedEventNeverExecutes ==
  (lastEv.seen /\ MatchesTarget(lastEv.logs) /\ lastEv.err) => ~lastEv.started

\* C10: an event of the target kind whose logs carry a launch pubkey other
\* than the target's never starts an execution, in either orchestrator.
C10_OtherLaunchNeverExecutes ==
  (/\ lastEv.seen
   /\ MatchesTarget(lastEv.logs)
   /\ extractLaunchPubkey(lastEv.logs) \notin {NoKey, TargetKey}) => ~lastEv.started

\* C11: fail-open on a missing correlation id: a non-failed event of the
\* target kind from whose logs no launch pubkey can be extracted, delivered
\* while the orchestrator is in Monitoring, starts an execution; it is never
\* discarded for lack of an id.
C11_FailOpenWithoutId ==
  [][(/\ delivered' = delivered + 1
      /\ ~isExecuting /\ ~hasExecuted
      /\ MatchesTarget(lastEv'.logs)
      /\ ~lastEv'.err
      /\ extractLaunchPubkey(lastEv'.logs) = NoKey) => lastEv'.started]_vars

\* the log-subscription orchestrator has just started an execution on an
\* event without a launch pubkey
C11_Witness ==
  /\ orch = "loyal"
  /\ lastEv.seen /\ lastEv.started
  /\ ~lastEv.err
  /\ extractLaunchPubkey(lastEv.logs) = NoKey
  /\ isExecuting
  /\ Len(execs) = 1

\* the error that ended the attempt sequence carries no fatal marker
EndedRecoverable ==
  hist.endErr \cap {"claimed", "noRecord"} = {} /\ hist.endErr # NotClassified

\* the orchestrator's listener is still registered on a stream it has not
\* stopped
StillListening ==
  IF orch = "loyal" THEN subscribed
  ELSE "completeLaunch" \in txCallbacks /\ stream # 0

\* C12: recoverable failure: when an attempt sequence ends with an error that
\* contains neither 'already claimed' nor 'No funding record', isExecuting is
\* cleared, hasExecuted stays false, the process runs on with the stream and
\* its listener registered, and a later event that meets the trigger
\* condition starts a new attempt.
C12_RecoverableFailure ==
  /\ [](((EndedRecoverable /\ outcome # "sigint") \/ outcome = "recovered") =>
          /\ outcome = "recovered"
          /\ EndedRecoverable
          /\ ~isExecuting /\ ~hasExecuted /\ execs = <<>>
          /\ exitCode = -1
          /\ StillListening)
  /\ [][(/\ outcome = "recovered"
         /\ delivered' = delivered + 1
         /\ MatchesTarget(lastEv'.logs)
         /\ orch = "loyal" =>
               /\ ~lastEv'.err
               /\ ~launchMismatch(extractLaunchPubkey(lastEv'.logs)))
        => (lastEv'.started /\ sent' = <<>>)]_vars

\* an attempt whose last submission was rejected has ended and the
\* orchestrator is monitoring again
C12_Witness ==
  /\ outcome = "recovered"
  /\ Len(sent) >= 1
  /\ ~sent[Len(sent)].ok
  /\ hist.endErr = {}
  /\ ~isExecuting
  /\ delivered < MaxEvents

\* the add-liquidity fallback of the catch block ran and its submission was
\* rejected
FallbackSubmissionFailed ==
  /\ "inUse" \in hist.endErr
  /\ \E k \in 1..Len(sent) : sent[k].kind = "addLiquidity" /\ ~sent[k].ok

\* C13: a resource conflict with no fallback is fatal: when the pool creation
\* fails with 'already in use' and the add-liquidity fallback submission
\* fails too, the run ends Failed (hasExecuted, stream stopped, exit code 1)
\* and does not go back to Monitoring.
C13_ConflictWithoutFallbackIsFatal ==
  (orch = "pool" /\ hist.createInUse /\ FallbackSubmissionFailed /\ Settled) =>
     /\ outcome = "failed"
     /\ hasExecuted
     /\ ~isActive
     /\ exitCode = 1

\* C14: Completed and Failed are terminal: once hasExecuted is true it stays
\* true, and no event delivered afterwards, in any interleaving with the
\* stream stop and the process exit, starts an execution or transmits a
\* payload.
C14_TerminalStates ==
  [][hasExecuted =>
        /\ hasExecuted'
        /\ sent' = sent
        /\ Len(execs') <= Len(execs)
        /\ ~lastEv'.started]_vars

\* an event meeting the trigger condition arrived after hasExecuted was set,
\* while the process was still unsubscribing, and was skipped
C14_Witness ==
  /\ hasExecuted
  /\ exitCode = -1
  /\ lastEv.seen /\ ~lastEv.started
  /\ MatchesTarget(lastEv.logs)
  /\ ~lastEv.err
  /\ ~launchMismatch(extractLaunchPubkey(lastEv.logs))

\* start() ended the process before Monitoring: the endpoint is not
\* configured or startUnifiedStream threw
StartFailed ==
  /\ orch = "pool" /\ exitCode # -1 /\ outcome # "sigint"
  /\ oStep \in {"init", "startingStream"}

\* C15: exit discipline: a run that reaches Completed has stopped the stream
\* (inactive, listeners cleared) and exits with code 0; a run that reaches
\* Failed, or whose stream start or configuration fails, exits with code 1;
\* a run in which a submission was rejected with 'already claimed' never
\* ends Completed with exit code 0.
C15_ExitDiscipline ==
  /\ outcome = "completed" =>
        /\ exitCode = 0
        /\ orch = "pool" => (~isActive /\ txCallbacks = {})
  /\ outcome = "failed" => exitCode = 1
  /\ StartFailed => exitCode = 1
  /\ (outcome = "completed" /\ exitCode = 0) => hist.claimedAt = 0

\* C16: a failure of the initial pre-build is not fatal: AutoPoolOrchestrator
\* does not exit, the stream client is left as it was (as active as before,
\* same subscription) with the 'completeLaunch' listener registered, and the
\* orchestrator is Monitoring with neither flag set.
C16_PreBuildFailureNotFatal ==
  /\ []((orch = "pool" /\ oStep = "monitoring" /\ ~cacheBuilt /\ outcome # "sigint") =>
          /\ exitCode = -1
          /\ "completeLaunch" \in txCallbacks
          /\ stream # 0
          /\ ~isExecuting /\ ~hasExecuted /\ execs = <<>>)
  /\ [][(oStep = "prebuilding" /\ oStep' # "prebuilding" /\ ~cacheBuilt') =>
          /\ oStep' = "monitoring"
          /\ exitCode' = -1
          /\ isActive' = isActive
          /\ stream' = stream /\ live' = live
          /\ txCallbacks' = txCallbacks]_vars

C16_Witness ==
  /\ orch = "pool" /\ oStep = "monitoring" /\ ~cacheBuilt /\ exitCode = -1
  /\ isActive /\ stream \in live /\ "completeLaunch" \in txCallbacks
  /\ ~isExecuting /\ ~hasExecuted /\ delivered = 0

\* C17: when the first startUnifiedStream call of a client throws (no
\* endpoint configured, or the initial client/subscribe handshake throws)
\* the client is inactive, holds no subscription and has dispatched nothing;
\* and when the endpoint is missing or the call threw,
\* AutoPoolOrchestrator.start has registered no listener and delivered no
\* event, never reaches Monitoring, and ends the process with code 1 only.
C17_StartFailureLeavesInactive ==
  /\ [][(startPc # "threw" /\ startPc' = "threw" /\ opened = 0) =>
          /\ ~isActive' /\ stream' = 0 /\ live' = {}
          /\ ~dispatched'.seen]_vars
  /\ []((orch = "pool" /\ (~endpoint \/ startPc = "threw")) =>
          /\ oStep \in {"init", "startingStream"}
          /\ delivered = 0
          /\ txCallbacks = {}
          /\ exitCode \in {-1, 1})
  /\ [](StartFailed => (exitCode = 1 /\ ~isActive /\ txCallbacks = {}))

C17_Witness ==
  /\ orch = "pool" /\ endpoint /\ startPc = "threw"
  /\ oStep = "startingStream" /\ exitCode = 1
  /\ ~isActive /\ txCallbacks = {} /\ delivered = 0

\* C18: listener isolation: after the dispatch of a transaction frame every
\* registered callback has been called exactly once, with the normalized
\* event, whichever callbacks threw, and no other callback has been called;
\* no error has left the dispatch loop, and the client is as active as it
\* was before the frame.
C18_ListenerIsolation ==
  dispatched.seen =>
    /\ \A id \in ListenerIds :
          dispatched.calls[id] =
            IF id \in dispatched.registered THEN <<dispatched.event>> ELSE <<>>
    /\ ~dispatched.escaped
    /\ isActive = dispatched.active
    /\ txCallbacks = dispatched.registered

C18_Witness ==
  /\ dispatched.seen
  /\ dispatched.registered = ListenerIds
  /\ dispatched.caught # {} /\ dispatched.caught # ListenerIds
  /\ \A id \in ListenerIds : Len(dispatched.calls[id]) = 1
  /\ isActive

\* C19: immediately after a stream 'error' or 'end' event isActive() is
\* false, and a getBlockhash call made then does not use the cached anchor.
C19_InactiveAfterErrorOrEnd ==
  [][(\E s \in live : live' = live \ {s}) =>
       /\ ~isActive'
       /\ getBlockhash'.source = "direct"]_vars

C19_Witness ==
  /\ stream # 0 /\ stream \notin live
  /\ latestBlockhash # NoHash
  /\ ~isActive
  /\ gbh.source = "direct"
  /\ stopsInARow = 0

\* C20: exactly one live subscription: a new subscription is never opened
\* while the one the client holds is still open (not ended by stopStreaming,
\* by an error or by the server).
C20_OneLiveSubscription ==
  [][opened' = opened + 1 => ~(stream # 0 /\ stream \in live)]_vars

\* C21: per-kind submission policy: every claim submission is transmitted
\* with skipPreflight = false and maxRetries = 2, and every create
\* submission with skipPreflight = true and maxRetries = 0, whatever the
\* executor's configured defaults are.
C21_PerKindPolicy ==
  \A k \in 1..Len(sent) :
     /\ sent[k].kind = "claim" =>
           sent[k].opts = [skipPreflight |-> {FALSE}, maxRetries |-> {2}]
     /\ sent[k].kind = "create" =>
           sent[k].opts = [skipPreflight |-> {TRUE}, maxRetries |-> {0}]

C21_Witness ==
  /\ txConfig = [skipPreflight |-> {TRUE}, maxRetries |-> {5}]
  /\ Len(sent) = 2
  /\ sent[1].kind = "create" /\ sent[2].kind = "claim"

\* C22: cancellation: whenever the run is ended by SIGINT after start() was
\* invoked, stopStreaming has run (subscription handle dropped, not
\* streaming, listeners cleared; the log subscription removed in the loyal
\* orchestrator), and the submissions already transmitted are left as they
\* are.
C22_Cancellation ==
  [][(outcome # "sigint" /\ outcome' = "sigint") =>
       /\ orch = "pool" => (stream' = 0 /\ ~isStreaming' /\ txCallbacks' = {})
       /\ orch = "loyal" => ~subscribed'
       /\ sent' = sent]_vars

\* C23: the payload cache is written once and read-only afterwards: once
\* preBuildTransaction has filled it, no step of the run changes the cached
\* claim and create payloads or the cached position identity.
C23_CacheReadOnly ==
  [][cacheBuilt => cache' = cache]_vars

\* C24: retained identities: every create payload transmitted from the cache
\* embeds and is signed with the position identity generated at pre-build,
\* which is the one the cache holds, on retries too.
C24_RetainedIdentities ==
  /\ cacheBuilt => cache.positionNft = PreBuiltNft
  /\ \A k \in 1..Len(sent) :
        sent[k].kind = "create" =>
          /\ sent[k].tx.positionNft = PreBuiltNft
          /\ sent[k].tx.signatures = {Wallet, PreBuiltNft}

C24_Witness ==
  \E j, k \in 1..Len(sent) :
     /\ j < k
     /\ sent[j].kind = "create" /\ sent[j].attempt = 1
     /\ sent[k].kind = "create" /\ sent[k].attempt = 2

\* C25: two-phase build and submit: pre-build leaves both payloads without
\* an anchor, and every payload handed to sendRawTransaction carries the
\* anchor assigned by the sendAndSign call that transmits it, also when the
\* same cached payload is submitted again on a retry.
C25_StampedAtSubmission ==
  /\ [](\A k \in 1..Len(sent) :
          sent[k].kind \in {"claim", "create", "addLiquidity"} =>
            sent[k].tx.recentBlockhash = [call |-> k])
  /\ [][(~cacheBuilt /\ cacheBuilt') =>
          /\ cache'.claimTx.recentBlockhash = NoStamp
          /\ cache'.createPoolTx.recentBlockhash = NoStamp]_vars

C25_Witness ==
  \E j, k \in 1..Len(sent) :
     /\ j < k
     /\ sent[j].kind = "claim" /\ sent[j].attempt = 1
     /\ sent[k].kind = "claim" /\ sent[k].attempt = 2
     /\ sent[k].tx.recentBlockhash = [call |-> k]
     /\ cache.claimTx.recentBlockhash = [call |-> k]

\* C26: fail fast on an unresolved pre-build: a trigger event that arrives
\* while the cache is empty starts an attempt that transmits nothing and
\* ends at once as recoverable: both flags false, no execution in flight, no
\* exit; and nothing is ever transmitted from an empty cache.
C26_FailFastOnEmptyCache ==
  /\ []((orch = "pool" /\ ~cacheBuilt) => (sent = <<>> /\ execs = <<>>))
  /\ [][(orch = "pool" /\ delivered' = delivered + 1 /\ lastEv'.started /\ ~cacheBuilt) =>
          /\ sent' = <<>>
          /\ outcome' = "recovered"
          /\ ~isExecuting' /\ ~hasExecuted'
          /\ exitCode' = -1]_vars

C26_Witness ==
  /\ orch = "pool" /\ oStep = "prebuilding" /\ ~cacheBuilt
  /\ lastEv.started /\ outcome = "recovered" /\ sent = <<>>
  /\ ~isExecuting /\ ~hasExecuted /\ exitCode = -1
  /\ "completeLaunch" \in txCallbacks

\* C27: the cached anchor is used only while the stream is live: a
\* getBlockhash call returns the cached value exactly when a cached anchor
\* exists and the client is streaming, and fetches from the RPC endpoint in
\* every other case.
C27_CachedOnlyWhileActive ==
  [][gbh' # gbh =>
       /\ gbh'.source \in {"cached", "direct"}
       /\ gbh'.source = "cached" <=> (latestBlockhash # NoHash /\ isStreaming)]_vars

C27_Witness ==
  /\ gbh.source = "direct"
  /\ latestBlockhash # NoHash /\ blockhashLastUpdate > 1
  /\ gbh.age = getBlockhashAge
  /\ ~isStreaming /\ stream = 0 /\ stopsInARow >= 1

MatchedKinds(logs) ==
  { patterns[i].name : i \in { k \in 1..Len(patterns) :
        PatternMatches(ToLowerCase(JoinSpace(logs)), patterns[k]) } }

\* the matched kind that comes first in the fixed order
FirstInOrder(logs) ==
  LET first == CHOOSE i \in 1..Len(patterns) :
                 /\ patterns[i].name \in MatchedKinds(logs)
                 /\ \A k \in 1..(i - 1) : patterns[k].name \notin MatchedKinds(logs)
  IN  patterns[first].name

\* the same lines in every order
Reorderings(logs) ==
  { [i \in 1..Len(logs) |-> logs[q[i]]] : q \in Orders(1..Len(logs)) }

\* C29: priority tie-break: when the logs match patterns of more than one
\* kind, detectInstruction returns the matched kind that comes first in the
\* order completeLaunch, initializeLaunch, startLaunch, fund, refund, claim,
\* and it returns that same kind for the same lines in any other order.
C29_PriorityTieBreak ==
  (pKind # NotCalled /\ Cardinality(MatchedKinds(pLogs)) > 1) =>
     /\ pKind = FirstInOrder(pLogs)
     /\ \A q \in Reorderings(pLogs) : detectInstruction(q) = pKind

\* log.match(pattern) for every line of the inputs and each of the three
\* patterns
MatchTable == [l \in LogLines |-> [k \in 1..3 |-> MatchFrom(k, l, 1)]]

\* the (line, pattern) pairs of logs at which the pattern matches the line
MatchingPairs(logs) ==
  { pr \in (1..Len(logs)) \X (1..3) : MatchTable[logs[pr[1]]][pr[2]] # NoKey }

\* pair a comes before pair b: an earlier line, or the same line and an
\* earlier pattern
PairBefore(a, b) == a[1] < b[1] \/ (a[1] = b[1] /\ a[2] < b[2])

\* C30: extractLaunchPubkey returns the id captured by the first (line,
\* pattern) pair that matches, lines taken in order and, within a line, the
\* three patterns in their order; it returns null exactly when no line
\* matches any pattern.
C30_FirstMatchAcrossLines ==
  pLoyal.called =>
    LET pairs == MatchingPairs(pLogs)
    IN  /\ (pLoyal.launchPubkey = NoKey) <=> (pairs = {})
        /\ pairs # {} =>
              LET first == CHOOSE a \in pairs :
                             \A b \in pairs \ {a} : PairBefore(a, b)
              IN  pLoyal.launchPubkey = MatchTable[pLogs[first[1]]][first[2]]

C30_Witness ==
  /\ pLoyal.called
  /\ pLogs = <<LineAccountOther, LineIdTarget>>
  /\ MatchingPairs(pLogs) = {<<1, 3>>, <<2, 1>>}
  /\ pLoyal.launchPubkey = OtherKey

\* C31: submission order inside an attempt: a create-pool or add-liquidity
\* payload that executeInstantFire transmits (the execution is not in the
\* fallback of execute's catch block) is transmitted only when the claim
\* submission of the same attempt has resolved, and never when the claim
\* submission of that attempt was rejected.
C31_ClaimBeforeCreate ==
  [][\A i \in 1..Len(execs) :
       (/\ orch = "pool"
        /\ Len(sent') = Len(sent) + 1
        /\ sent'[Len(sent')].kind \in {"create", "addLiquidity"}
        /\ ~execs[i].fb)
       => /\ \E j \in 1..Len(sent) :
                /\ sent[j].kind = "claim"
                /\ sent[j].ok
                /\ sent[j].attempt = execs[i].attempt
          /\ \A j \in 1..Len(sent) :
                (sent[j].kind = "claim" /\ sent[j].attempt = execs[i].attempt)
                   => sent[j].ok]_vars

\* the claim of the first attempt was rejected and nothing followed it; in
\* the retry the claim resolved and the create payload was transmitted
C31_Witness ==
  /\ orch = "pool"
  /\ Len(sent) = 3
  /\ sent[1].kind = "claim" /\ ~sent[1].ok /\ sent[1].attempt = 1
  /\ sent[2].kind = "claim" /\ sent[2].ok /\ sent[2].attempt = 2
  /\ sent[3].kind = "create" /\ sent[3].attempt = 2

\* where instruction ix stands in the instruction list, 0 when it is not there
IndexOf(ixs, ix) ==
  IF \E k \in 1..Len(ixs) : ixs[k] = ix
  THEN CHOOSE k \in 1..Len(ixs) : ixs[k] = ix /\ \A j \in 1..(k - 1) : ixs[j] # ix
  ELSE 0

\* how many times instruction ix stands in the list
CountOf(ixs, ix) == Cardinality({k \in 1..Len(ixs) : ixs[k] = ix})

\* C32: single-transaction composition: the one transaction that
\* MetaDAOLoyalPoolCreator.executeInSingleSlot sends holds the claim
\* instruction once and the create-pool instruction once, the claim before
\* the pool creation; a token-account creation instruction is in it exactly
\* when that account does not exist, and then before the claim; its signers
\* are the wallet and the position identity generated in that call.
C32_SingleTransactionOrder ==
  \A k \in 1..Len(sent) :
     sent[k].kind = "claimAndCreate" =>
       LET ixs == sent[k].tx.instructions
       IN  /\ CountOf(ixs, "claimIx") = 1
           /\ CountOf(ixs, "createPoolIx") = 1
           /\ IndexOf(ixs, "claimIx") < IndexOf(ixs, "createPoolIx")
           /\ CountOf(ixs, "loyalAtaIx") = IF sent[k].exists.loyal THEN 0 ELSE 1
           /\ CountOf(ixs, "solAtaIx") = IF sent[k].exists.sol THEN 0 ELSE 1
           /\ IndexOf(ixs, "loyalAtaIx") < IndexOf(ixs, "claimIx")
           /\ IndexOf(ixs, "solAtaIx") < IndexOf(ixs, "claimIx")
           /\ sent[k].tx.signers = {Wallet, LoyalPositionNft(k)}
           /\ Len(sent) = 1

\* a transaction was sent when neither token account existed
C32_Witness ==
  /\ orch = "loyal"
  /\ Len(sent) = 1
  /\ sent[1].exists = [loyal |-> FALSE, sol |-> FALSE]
  /\ sent[1].tx.instructions =
        <<"setComputeUnitPrice", "setComputeUnitLimit", "loyalAtaIx", "solAtaIx",
          "claimIx", "createPoolIx">>

\* C33: within one attempt sequence of AutoPoolOrchestrator (the retry
\* through executeInSingleSlot and the conflict fallback included) the
\* pre-built claim payload is transmitted at most once, and so is the
\* pre-built create-pool payload.
C33_PayloadSentAtMostOnce ==
  orch = "pool" =>
    \A kind \in {"claim", "create"} :
       Cardinality({k \in 1..Len(sent) : sent[k].kind = kind}) <= 1

\* C34: no trigger is lost at startup: every CompleteLaunch transaction frame
\* that the stream delivers once the subscription request is written is
\* handed to the listener of AutoPoolOrchestrator and so reaches
\* handleTransaction, whatever start() is awaiting at that moment.
C34_NoTriggerLostAtStartup ==
  (/\ orch = "pool"
   /\ dispatched.seen
   /\ isCompleteLaunchTransaction(parseMetaDAOTransaction(dispatched.event.logs)))
  => /\ "completeLaunch" \in dispatched.registered
     /\ lastEv.seen

\* the client is inactive through stopStreaming or a stream 'error' or 'end',
\* and startUnifiedStream has not been called since: the last operation was
\* a stopStreaming call, or the stream of the startUnifiedStream call still
\* awaiting its blockhash fetch has been stopped or has ended
InactivatedNoRestart ==
  /\ ~isActive
  /\ \/ stopsInARow > 0
     \/ /\ startPc \in {"initialFetch", "fallbackFetch"}
        /\ stream = 0 \/ stream \notin live

\* C35: inactivity is stable: once stopStreaming, a stream 'error' or a
\* stream 'end' has made the client inactive, isActive() stays false in
\* every step that is not a new startUnifiedStream call: a late block frame,
\* the reply of a pending blockhash fetch, a refresh tick.
C35_InactivityStable ==
  [][(InactivatedNoRestart /\ ~(startPc = "idle" /\ startPc' # "idle"))
       => ~isActive']_vars

\* C36: at most one periodic refresh timer exists per stream client at any
\* time, and right after a stopStreaming call none is running.
C36_OneRefreshTimer ==
  /\ timers <= 1
  /\ stopsInARow > 0 => timers = 0

\* the awaits at which an execution in flight can stand
AwaitPcs ==
  {"claim", "poolCheck", "create", "poolState", "addLiqSend", "addLiqConfirm",
   "settle", "gate", "send", "unsubscribeCompleted", "unsubscribeFailed"}

\* C37: the reentrancy flag is always released: while the process runs,
\* isExecuting is set only while an execution is in flight at one of its
\* awaits; every attempt sequence that has ended without ending the process
\* has left isExecuting false, whichever submission, retry or fallback
\* failed, so no state with isExecuting set, hasExecuted clear and nothing in
\* flight exists.
C37_FlagReleased ==
  exitCode = -1 =>
    /\ execs = <<>> => ~isExecuting
    /\ isExecuting => (Len(execs) = 1 /\ execs[1].pc \in AwaitPcs)
    /\ outcome = "recovered" => (~isExecuting /\ ~hasExecuted /\ execs = <<>>)

\* the create submission of the retry failed with 'already in use', the
\* add-liquidity fallback failed too, and the orchestrator is back in
\* Monitoring with the flag released
C37_Witness ==
  /\ orch = "pool"
  /\ exitCode = -1
  /\ outcome = "recovered"
  /\ hist.createInUse /\ hist.fallbackFailed
  /\ Len(sent) >= 3
  /\ ~isExecuting /\ ~hasExecuted /\ execs = <<>>

\* the program log line of the instruction of each kind
InstructionLine ==
  [completeLaunch |-> LineCompleteLaunch, initializeLaunch |-> LineInitializeLaunch,
   startLaunch |-> LineStartLaunch, fund |-> LineFund, refund |-> LineRefund,
   claim |-> LineClaim]

\* C38: every kind of the vocabulary is reachable: the logs that hold the
\* instruction line of kind K and nothing else are classified as K, for each
\* K of completeLaunch, initializeLaunch, startLaunch, fund, refund, claim.
C38_EveryKindReachable ==
  pKind # NotCalled =>
    \A K \in DOMAIN InstructionLine :
       pLogs = <<InstructionLine[K]>> => pKind = K

\* C39: Loyal path pre-submission gate: a transaction is sent only when the
\* fetched launch state is complete and the funding record exists and is
\* unclaimed; an incomplete launch sends nothing and returns the
\* orchestrator to Monitoring; a claimed record and a missing record send
\* nothing, are classified as 'already claimed' and 'No funding record',
\* and end the process with code 1.
C39_LoyalGate ==
  orch = "loyal" =>
    /\ sent # <<>> =>
          /\ hist.gate.state \in {"complete", "Complete"}
          /\ hist.gate.record = "unclaimed"
    /\ hist.gate.state = "live" =>
          /\ sent = <<>>
          /\ ~hasExecuted /\ exitCode # 1
          /\ execs = <<>> /\ ~isExecuting
          /\ outcome \in {"recovered", "sigint"}
    /\ hist.gate.record \in {"claimed", "missing"} =>
          /\ sent = <<>>
          /\ hist.endErr = IF hist.gate.record = "claimed" THEN {"claimed"}
                           ELSE {"noRecord"}
          /\ hasExecuted
          /\ execs = <<>> => exitCode = 1

\* the funding record was missing: nothing was sent and the process exited
\* with code 1
C39_Witness ==
  /\ orch = "loyal"
  /\ hist.gate = [state |-> "complete", record |-> "missing"]
  /\ sent = <<>>
  /\ execs = <<>>
  /\ exitCode = 1

\* C40: whenever the stream client reports streaming it holds a cached
\* anchor: isStreaming implies latestBlockhash is not null, so isActive()
\* equals isStreaming and getLatestBlockhash() does not return null.
C40_StreamingHasAnchor ==
  /\ isStreaming => latestBlockhash # NoHash
  /\ isActive = isStreaming
  /\ isStreaming => ~getLatestBlockhash.isNull

\* streaming was switched on by a block frame alone: no refresh timer runs
C40_Witness ==
  /\ isStreaming
  /\ timers = 0
  /\ latestBlockhash \in Hashes
  /\ ~getLatestBlockhash.isNull

=============================================================================
